---- MODULE Spec2Model ----
(***************************************************************************)
(* Structural evidence classifier of trial-compass-insight.                *)
(*                                                                         *)
(*   - lib/picoAnalysis (src/unnamed/part_003): analyzePico and its        *)
(*     comparator / endpoint aggregators and note templates;               *)
(*   - supabase/functions/trial-detail/index.ts: the measure-text endpoint *)
(*     classifier applied when a study is ingested;                        *)
(*   - supabase/functions/_shared/cors.ts: checkRateLimit, with its calls  *)
(*     interleaved at their await points;                                  *)
(*   - pages/Index (src/unnamed/part_000): handleSearch and handleLoadMore *)
(*     with their pending requests.                                        *)
(*                                                                         *)
(* JavaScript strings are sequences of one-character strings, so that      *)
(* includes(), toLowerCase(), toUpperCase() and the \b regular expressions  *)
(* are computed on the text as the code computes them.  An optional value  *)
(* is <<>> (undefined) or <<v>> (the value v).                             *)
(***************************************************************************)
EXTENDS Integers, Sequences, FiniteSets, TLC

VARIABLES
  trials,     \* the trial list held by the caller of analyzePico
  analysed,   \* the argument of the last analyzePico call
  result,     \* what that call returned (NoResult before the first call)
  tdMeasure,  \* the outcome measure text handed to trial-detail's classifier
  tdLabel,    \* the classification it returned (NoLabel before the call)
  tdArmGroup, \* an arm group of the registry record trial-detail is mapping
  clientArm,  \* the Arm the client holds (Undefined before it is received)
  armClass,   \* what the comparator loop computed for that arm
  rateEndpoint,     \* the endpoint whose requests checkRateLimit is counting
  rate_limits,      \* the rate_limits row of the client IP and that endpoint
  allowedBefore,    \* the requests already allowed in the row's window
  rateCalls,        \* per checkRateLimit call: its position, its read, its result
  results,          \* the search page's results state
  isLoading,        \* its isLoading state
  isLoadingMore,    \* its isLoadingMore state
  lastSearchParams, \* its lastSearchParams ref
  searchRequest,    \* the pending searchTrials promise
  nextPageRequest   \* the pending searchTrialsNextPage promise

classifierVars ==
  <<trials, analysed, result, tdMeasure, tdLabel, tdArmGroup, clientArm, armClass>>

rateVars == <<rateEndpoint, rate_limits, allowedBefore, rateCalls>>

searchVars ==
  <<results, isLoading, isLoadingMore, lastSearchParams, searchRequest, nextPageRequest>>

vars == <<classifierVars, rateVars, searchVars>>

-----------------------------------------------------------------------------
(* JavaScript values and string primitives *)

Undefined == <<>>

Some(v) == <<v>>

\* no checkRateLimit call is running and none has run
RateLimitUnused ==
  /\ rateEndpoint = Undefined
  /\ rate_limits = Undefined
  /\ allowedBefore = 0
  /\ rateCalls = <<>>

\* the search page as mounted: useState(null), useState(false), useRef(null)
SearchPageMounted ==
  /\ results = Undefined
  /\ isLoading = FALSE
  /\ isLoadingMore = FALSE
  /\ lastSearchParams = Undefined
  /\ searchRequest = Undefined
  /\ nextPageRequest = Undefined

IsDefined(o) == Len(o) > 0

\* x || d for an optional string: undefined and '' are falsy
OrElse(o, d) == IF IsDefined(o) /\ Len(o[1]) > 0 THEN o[1] ELSE d

\* x || [] for an optional array
OrEmptyList(o) == IF IsDefined(o) THEN o[1] ELSE <<>>

UpperCaseLetters ==
  <<"A","B","C","D","E","F","G","H","I","J","K","L","M","N","O","P","Q","R","S","T","U","V","W","X","Y","Z">>

LowerCaseLetters ==
  <<"a","b","c","d","e","f","g","h","i","j","k","l","m","n","o","p","q","r","s","t","u","v","w","x","y","z">>

Digits == {"0","1","2","3","4","5","6","7","8","9"}

LetterIndex(c, letters) == CHOOSE k \in 1..26 : letters[k] = c

IsIn(c, letters) == \E k \in 1..26 : letters[k] = c

\* String.prototype.toLowerCase
toLowerCase(s) ==
  [i \in 1..Len(s) |->
     IF IsIn(s[i], UpperCaseLetters)
     THEN LowerCaseLetters[LetterIndex(s[i], UpperCaseLetters)]
     ELSE s[i]]

\* String.prototype.toUpperCase
toUpperCase(s) ==
  [i \in 1..Len(s) |->
     IF IsIn(s[i], LowerCaseLetters)
     THEN UpperCaseLetters[LetterIndex(s[i], LowerCaseLetters)]
     ELSE s[i]]

\* String.prototype.includes
includes(s, k) ==
  \E i \in 0..(Len(s) - Len(k)) : SubSeq(s, i + 1, i + Len(k)) = k

\* a regular-expression word character [A-Za-z0-9_]
IsWordChar(c) ==
  IsIn(c, LowerCaseLetters) \/ IsIn(c, UpperCaseLetters) \/ c \in Digits \/ c = "_"

\* /\bw\b/.test(s) for a word w made of word characters
matchesWord(s, w) ==
  \E i \in 0..(Len(s) - Len(w)) :
     /\ SubSeq(s, i + 1, i + Len(w)) = w
     /\ (i = 0 \/ ~IsWordChar(s[i]))
     /\ (i + Len(w) = Len(s) \/ ~IsWordChar(s[i + Len(w) + 1]))

-----------------------------------------------------------------------------
(* trial-detail/index.ts: classifyEndpoint(measure) *)

\* the classification labels the classifier returns, as text
L_OS == <<"O","S">>  \* 'OS'

L_PFS == <<"P","F","S">>  \* 'PFS'

L_DFS == <<"D","F","S">>  \* 'DFS'

L_EFS == <<"E","F","S">>  \* 'EFS'

L_RFS == <<"R","F","S">>  \* 'RFS'

L_ORR == <<"O","R","R">>  \* 'ORR'

L_CR == <<"C","R">>  \* 'CR'

L_pCR == <<"p","C","R">>  \* 'pCR'

L_CBR == <<"C","B","R">>  \* 'CBR'

L_DCR == <<"D","C","R">>  \* 'DCR'

L_DOR == <<"D","O","R">>  \* 'DOR'

L_TTP == <<"T","T","P">>  \* 'TTP'

L_TTF == <<"T","T","F">>  \* 'TTF'

L_MRD == <<"M","R","D">>  \* 'MRD'

L_QoLPRO == <<"Q","o","L","/","P","R","O">>  \* 'QoL/PRO'

L_Safety == <<"S","a","f","e","t","y">>  \* 'Safety'

L_Biomarker == <<"B","i","o","m","a","r","k","e","r">>  \* 'Biomarker'

L_PKPD == <<"P","K","/","P","D">>  \* 'PK/PD'

L_ResourceUse == <<"R","e","s","o","u","r","c","e"," ","U","s","e">>  \* 'Resource Use'

L_Other == <<"O","t","h","e","r">>  \* 'Other'

\* trial-detail/index.ts:159-161  keywords of the rule returning 'OS'
KW_OS ==
  [sub |-> {
      <<"o","v","e","r","a","l","l"," ","s","u","r","v","i","v","a","l">>   \* 'overall survival'
   },
   word |-> {
      <<"o","s">>   \* /\bos\b/
   }]

\* trial-detail/index.ts:164-166  keywords of the rule returning 'PFS'
KW_PFS ==
  [sub |-> {
      <<"p","r","o","g","r","e","s","s","i","o","n","-","f","r","e","e">>,  \* 'progression-free'
      <<"p","r","o","g","r","e","s","s","i","o","n"," ","f","r","e","e">>   \* 'progression free'
   },
   word |-> {
      <<"p","f","s">>   \* /\bpfs\b/
   }]

\* trial-detail/index.ts:167-169  keywords of the rule returning 'DFS'
KW_DFS ==
  [sub |-> {
      <<"d","i","s","e","a","s","e","-","f","r","e","e">>,  \* 'disease-free'
      <<"d","i","s","e","a","s","e"," ","f","r","e","e">>   \* 'disease free'
   },
   word |-> {
      <<"d","f","s">>   \* /\bdfs\b/
   }]

\* trial-detail/index.ts:170-172  keywords of the rule returning 'EFS'
KW_EFS ==
  [sub |-> {
      <<"e","v","e","n","t","-","f","r","e","e">>,  \* 'event-free'
      <<"e","v","e","n","t"," ","f","r","e","e">>   \* 'event free'
   },
   word |-> {
      <<"e","f","s">>   \* /\befs\b/
   }]

\* trial-detail/index.ts:173-175  keywords of the rule returning 'RFS'
KW_RFS ==
  [sub |-> {
      <<"r","e","l","a","p","s","e","-","f","r","e","e">>,  \* 'relapse-free'
      <<"r","e","l","a","p","s","e"," ","f","r","e","e">>,  \* 'relapse free'
      <<"r","e","c","u","r","r","e","n","c","e","-","f","r","e","e">>,  \* 'recurrence-free'
      <<"r","e","c","u","r","r","e","n","c","e"," ","f","r","e","e">>   \* 'recurrence free'
   },
   word |-> {
      <<"r","f","s">>   \* /\brfs\b/
   }]

\* trial-detail/index.ts:178-180  keywords of the rule returning 'ORR'
KW_ORR ==
  [sub |-> {
      <<"o","b","j","e","c","t","i","v","e"," ","r","e","s","p","o","n","s","e">>,  \* 'objective response'
      <<"o","v","e","r","a","l","l"," ","r","e","s","p","o","n","s","e"," ","r","a","t","e">>   \* 'overall response rate'
   },
   word |-> {
      <<"o","r","r">>   \* /\borr\b/
   }]

\* trial-detail/index.ts:181-183  keywords of the rule returning 'CR'
KW_CR ==
  [sub |-> {
      <<"c","o","m","p","l","e","t","e"," ","r","e","s","p","o","n","s","e">>,  \* 'complete response'
      <<"c","o","m","p","l","e","t","e"," ","r","e","m","i","s","s","i","o","n">>   \* 'complete remission'
   },
   word |-> {
      <<"c","r">>,  \* /\bcr\b/
      <<"c","r","i">>   \* /\bcri\b/
   }]

\* trial-detail/index.ts:184-186  keywords of the rule returning 'pCR'
KW_pCR ==
  [sub |-> {
      <<"p","a","t","h","o","l","o","g","i","c"," ","c","o","m","p","l","e","t","e">>,  \* 'pathologic complete'
      <<"p","a","t","h","o","l","o","g","i","c","a","l"," ","c","o","m","p","l","e","t","e">>   \* 'pathological complete'
   },
   word |-> {
      <<"p","c","r">>   \* /\bpcr\b/
   }]

\* trial-detail/index.ts:187-189  keywords of the rule returning 'CBR'
KW_CBR ==
  [sub |-> {
      <<"c","l","i","n","i","c","a","l"," ","b","e","n","e","f","i","t">>   \* 'clinical benefit'
   },
   word |-> {
      <<"c","b","r">>   \* /\bcbr\b/
   }]

\* trial-detail/index.ts:190-192  keywords of the rule returning 'DCR'
KW_DCR ==
  [sub |-> {
      <<"d","i","s","e","a","s","e"," ","c","o","n","t","r","o","l">>   \* 'disease control'
   },
   word |-> {
      <<"d","c","r">>   \* /\bdcr\b/
   }]

\* trial-detail/index.ts:195-197  keywords of the rule returning 'DOR'
KW_DOR ==
  [sub |-> {
      <<"d","u","r","a","t","i","o","n"," ","o","f"," ","r","e","s","p","o","n","s","e">>   \* 'duration of response'
   },
   word |-> {
      <<"d","o","r">>   \* /\bdor\b/
   }]

\* trial-detail/index.ts:198-200  keywords of the rule returning 'TTP'
KW_TTP ==
  [sub |-> {
      <<"t","i","m","e"," ","t","o"," ","p","r","o","g","r","e","s","s","i","o","n">>   \* 'time to progression'
   },
   word |-> {
      <<"t","t","p">>   \* /\bttp\b/
   }]

\* trial-detail/index.ts:201-203  keywords of the rule returning 'TTF'
KW_TTF ==
  [sub |-> {
      <<"t","i","m","e"," ","t","o"," ","t","r","e","a","t","m","e","n","t"," ","f","a","i","l","u","r","e">>,  \* 'time to treatment failure'
      <<"t","i","m","e"," ","t","o"," ","n","e","x","t"," ","t","r","e","a","t","m","e","n","t">>   \* 'time to next treatment'
   },
   word |-> {
      <<"t","t","f">>,  \* /\bttf\b/
      <<"t","t","n","t">>   \* /\bttnt\b/
   }]

\* trial-detail/index.ts:204  phrases that keep a 'time to' text out of the generic rule
TimeToExclusions ==
  {
      <<"t","i","m","e"," ","t","o"," ","p","r","o","g","r","e","s","s","i","o","n">>,  \* !m.includes('time to progression')
      <<"t","i","m","e"," ","t","o"," ","t","r","e","a","t","m","e","n","t">>,  \* !m.includes('time to treatment')
      <<"t","i","m","e"," ","t","o"," ","n","e","x","t">>   \* !m.includes('time to next')
  }

\* trial-detail/index.ts:209-211  keywords of the rule returning 'MRD'
KW_MRD ==
  [sub |-> {
      <<"m","i","n","i","m","a","l"," ","r","e","s","i","d","u","a","l">>,  \* 'minimal residual'
      <<"m","e","a","s","u","r","a","b","l","e"," ","r","e","s","i","d","u","a","l">>   \* 'measurable residual'
   },
   word |-> {
      <<"m","r","d">>   \* /\bmrd\b/
   }]

\* trial-detail/index.ts:214-222  keywords of the rule returning 'QoL/PRO'
KW_QoLPRO ==
  [sub |-> {
      <<"q","u","a","l","i","t","y"," ","o","f"," ","l","i","f","e">>,  \* 'quality of life'
      <<"q","o","l">>,  \* 'qol'
      <<"h","r","q","o","l">>,  \* 'hrqol'
      <<"p","a","t","i","e","n","t"," ","r","e","p","o","r","t","e","d">>,  \* 'patient reported'
      <<"p","a","t","i","e","n","t","-","r","e","p","o","r","t","e","d">>,  \* 'patient-reported'
      <<"e","o","r","t","c">>,  \* 'eortc'
      <<"q","l","q">>,  \* 'qlq'
      <<"f","a","c","t","-">>,  \* 'fact-'
      <<"e","q","-","5","d">>,  \* 'eq-5d'
      <<"e","q","5","d">>,  \* 'eq5d'
      <<"s","f","-","3","6">>,  \* 'sf-36'
      <<"s","f","3","6">>,  \* 'sf36'
      <<"s","f","-","1","2">>,  \* 'sf-12'
      <<"p","r","o","m","i","s">>,  \* 'promis'
      <<"e","u","r","o","q","o","l">>,  \* 'euroqol'
      <<"b","p","i">>,  \* 'bpi'
      <<"b","r","i","e","f"," ","p","a","i","n">>,  \* 'brief pain'
      <<"m","d","a","s","i">>,  \* 'mdasi'
      <<"f","i","s","i">>,  \* 'fisi'
      <<"s","y","m","p","t","o","m"," ","b","u","r","d","e","n">>,  \* 'symptom burden'
      <<"h","e","a","l","t","h"," ","u","t","i","l","i","t","y">>,  \* 'health utility'
      <<"g","l","o","b","a","l"," ","h","e","a","l","t","h"," ","s","t","a","t","u","s">>   \* 'global health status'
   },
   word |-> {
      <<"p","r","o">>   \* /\bpro\b/
   }]

\* trial-detail/index.ts:225-231  keywords of the rule returning 'Safety'
KW_Safety ==
  [sub |-> {
      <<"a","d","v","e","r","s","e"," ","e","v","e","n","t">>,  \* 'adverse event'
      <<"s","a","f","e","t","y">>,  \* 'safety'
      <<"t","o","x","i","c","i","t","y">>,  \* 'toxicity'
      <<"t","o","l","e","r","a","b","i","l","i","t","y">>,  \* 'tolerability'
      <<"s","i","d","e"," ","e","f","f","e","c","t">>,  \* 'side effect'
      <<"d","o","s","e"," ","l","i","m","i","t","i","n","g">>,  \* 'dose limiting'
      <<"d","o","s","e","-","l","i","m","i","t","i","n","g">>,  \* 'dose-limiting'
      <<"m","a","x","i","m","u","m"," ","t","o","l","e","r","a","t","e","d">>,  \* 'maximum tolerated'
      <<"m","t","d">>,  \* 'mtd'
      <<"t","e","a","e">>,  \* 'teae'
      <<"t","r","e","a","t","m","e","n","t","-","e","m","e","r","g","e","n","t">>,  \* 'treatment-emergent'
      <<"t","r","e","a","t","m","e","n","t"," ","e","m","e","r","g","e","n","t">>,  \* 'treatment emergent'
      <<"i","n","c","i","d","e","n","c","e"," ","o","f">>,  \* 'incidence of'
      <<"a","e","s","i">>   \* 'aesi'
   },
   word |-> {
   }]

\* trial-detail/index.ts:234-239  keywords of the rule returning 'Biomarker'
KW_Biomarker ==
  [sub |-> {
      <<"b","i","o","m","a","r","k","e","r">>,  \* 'biomarker'
      <<"m","a","r","k","e","r"," ","l","e","v","e","l">>,  \* 'marker level'
      <<"e","x","p","r","e","s","s","i","o","n">>,  \* 'expression'
      <<"c","t","d","n","a">>,  \* 'ctdna'
      <<"c","i","r","c","u","l","a","t","i","n","g"," ","t","u","m","o","r">>,  \* 'circulating tumor'
      <<"p","d","-","l","1">>,  \* 'pd-l1'
      <<"h","e","r","2">>,  \* 'her2'
      <<"e","g","f","r">>,  \* 'egfr'
      <<"a","l","k">>,  \* 'alk'
      <<"b","r","a","f">>,  \* 'braf'
      <<"t","m","b">>,  \* 'tmb'
      <<"t","u","m","o","r"," ","m","u","t","a","t","i","o","n","a","l">>,  \* 'tumor mutational'
      <<"m","i","c","r","o","s","a","t","e","l","l","i","t","e">>   \* 'microsatellite'
   },
   word |-> {
   }]

\* trial-detail/index.ts:242-246  keywords of the rule returning 'PK/PD'
KW_PKPD ==
  [sub |-> {
      <<"p","h","a","r","m","a","c","o","k","i","n","e","t","i","c">>,  \* 'pharmacokinetic'
      <<"p","h","a","r","m","a","c","o","d","y","n","a","m","i","c">>,  \* 'pharmacodynamic'
      <<"a","u","c">>,  \* 'auc'
      <<"c","m","a","x">>,  \* 'cmax'
      <<"t","r","o","u","g","h">>,  \* 'trough'
      <<"c","l","e","a","r","a","n","c","e">>,  \* 'clearance'
      <<"h","a","l","f","-","l","i","f","e">>,  \* 'half-life'
      <<"b","i","o","a","v","a","i","l","a","b","i","l","i","t","y">>   \* 'bioavailability'
   },
   word |-> {
      <<"p","k">>,  \* /\bpk\b/
      <<"p","d">>   \* /\bpd\b/
   }]

\* trial-detail/index.ts:249-254  keywords of the rule returning 'Resource Use'
KW_ResourceUse ==
  [sub |-> {
      <<"c","o","s","t">>,  \* 'cost'
      <<"r","e","s","o","u","r","c","e">>,  \* 'resource'
      <<"h","o","s","p","i","t","a","l","i","z","a","t","i","o","n">>,  \* 'hospitalization'
      <<"h","o","s","p","i","t","a","l","i","s","a","t","i","o","n">>,  \* 'hospitalisation'
      <<"h","e","a","l","t","h","c","a","r","e"," ","u","t","i","l","i","z","a","t","i","o","n">>,  \* 'healthcare utilization'
      <<"h","e","a","l","t","h","c","a","r","e"," ","u","t","i","l","i","s","a","t","i","o","n">>,  \* 'healthcare utilisation'
      <<"l","e","n","g","t","h"," ","o","f"," ","s","t","a","y">>,  \* 'length of stay'
      <<"r","e","a","d","m","i","s","s","i","o","n">>,  \* 'readmission'
      <<"e","m","e","r","g","e","n","c","y"," ","d","e","p","a","r","t","m","e","n","t">>,  \* 'emergency department'
      <<"i","c","u">>,  \* 'icu'
      <<"q","a","l","y">>,  \* 'qaly'
      <<"i","c","e","r">>,  \* 'icer'
      <<"c","o","s","t","-","e","f","f","e","c","t","i","v","e","n","e","s","s">>   \* 'cost-effectiveness'
   },
   word |-> {
   }]

\* one if-condition of the classifier: some substring keyword is included or
\* some \b-delimited abbreviation occurs
hit(m, kw) ==
  \/ \E k \in kw.sub : includes(m, k)
  \/ \E w \in kw.word : matchesWord(m, w)

S_time_to == <<"t","i","m","e"," ","t","o">>  \* 'time to'

\* the generic 'time to ...' rule
timeToFallback(m) ==
  /\ includes(m, S_time_to)
  /\ \A k \in TimeToExclusions : ~includes(m, k)

td_classifyEndpoint(measureText) ==
  LET m == toLowerCase(measureText) IN
  IF hit(m, KW_OS) \/ m = <<"o","s">> THEN L_OS
  ELSE IF hit(m, KW_PFS) THEN L_PFS
  ELSE IF hit(m, KW_DFS) THEN L_DFS
  ELSE IF hit(m, KW_EFS) THEN L_EFS
  ELSE IF hit(m, KW_RFS) THEN L_RFS
  ELSE IF hit(m, KW_ORR) THEN L_ORR
  ELSE IF hit(m, KW_CR) THEN L_CR
  ELSE IF hit(m, KW_pCR) THEN L_pCR
  ELSE IF hit(m, KW_CBR) THEN L_CBR
  ELSE IF hit(m, KW_DCR) THEN L_DCR
  ELSE IF hit(m, KW_DOR) THEN L_DOR
  ELSE IF hit(m, KW_TTP) THEN L_TTP
  ELSE IF hit(m, KW_TTF) THEN L_TTF
  ELSE IF timeToFallback(m) THEN L_TTP
  ELSE IF hit(m, KW_MRD) THEN L_MRD
  ELSE IF hit(m, KW_QoLPRO) THEN L_QoLPRO
  ELSE IF hit(m, KW_Safety) THEN L_Safety
  ELSE IF hit(m, KW_Biomarker) THEN L_Biomarker
  ELSE IF hit(m, KW_PKPD) THEN L_PKPD
  ELSE IF hit(m, KW_ResourceUse) THEN L_ResourceUse
  ELSE L_Other

-----------------------------------------------------------------------------
(* trial-detail/index.ts: the armGroups mapping *)

\* the type rules, in the order of the if-chain: keywords and the control type set
td_TypeRules ==
  << [kw |-> {<<"p","l","a","c","e","b","o">>}, controlType |-> <<"P","l","a","c","e","b","o">>],
     [kw |-> {<<"s","h","a","m">>}, controlType |-> <<"S","h","a","m">>],
     [kw |-> {<<"n","o"," ","i","n","t","e","r","v","e","n","t","i","o","n">>, <<"n","o","_","i","n","t","e","r","v","e","n","t","i","o","n">>}, controlType |-> <<"N","o"," ","I","n","t","e","r","v","e","n","t","i","o","n">>],
     [kw |-> {<<"a","c","t","i","v","e","_","c","o","m","p","a","r","a","t","o","r">>, <<"a","c","t","i","v","e"," ","c","o","m","p","a","r","a","t","o","r">>}, controlType |-> <<"A","c","t","i","v","e"," ","C","o","m","p","a","r","a","t","o","r">>],
     [kw |-> {<<"e","x","p","e","r","i","m","e","n","t","a","l">>}, controlType |-> <<"E","x","p","e","r","i","m","e","n","t","a","l">>] >>

\* the rules applied to description + label when no type rule set a control type
td_TextRules ==
  << [kw |-> {<<"p","l","a","c","e","b","o">>}, controlType |-> <<"P","l","a","c","e","b","o">>],
     [kw |-> {<<"s","t","a","n","d","a","r","d"," ","o","f"," ","c","a","r","e">>, <<"s","o","c">>, <<"b","e","s","t"," ","s","u","p","p","o","r","t","i","v","e"," ","c","a","r","e">>, <<"b","e","s","t"," ","a","v","a","i","l","a","b","l","e"," ","t","h","e","r","a","p","y">>,
              <<"u","s","u","a","l"," ","c","a","r","e">>, <<"r","o","u","t","i","n","e"," ","c","a","r","e">>, <<"i","n","v","e","s","t","i","g","a","t","o","r","'","s"," ","c","h","o","i","c","e">>, <<"p","h","y","s","i","c","i","a","n","'","s"," ","c","h","o","i","c","e">>,
              <<"s","t","a","n","d","a","r","d"," ","t","r","e","a","t","m","e","n","t">>, <<"s","t","a","n","d","a","r","d"," ","t","h","e","r","a","p","y">>, <<"c","u","r","r","e","n","t"," ","s","t","a","n","d","a","r","d">>},
      controlType |-> <<"S","t","a","n","d","a","r","d"," ","o","f"," ","C","a","r","e">>],
     [kw |-> {<<"a","c","t","i","v","e"," ","c","o","m","p","a","r","a","t","o","r">>, <<"a","c","t","i","v","e"," ","c","o","n","t","r","o","l">>}, controlType |-> <<"A","c","t","i","v","e"," ","C","o","m","p","a","r","a","t","o","r">>] >>

\* the control type of the first rule with a keyword in text, null when there is none
td_firstRule(rules, text) ==
  LET matching == {i \in 1..Len(rules) : \E k \in rules[i].kw : includes(text, k)} IN
  IF matching = {} THEN Undefined
  ELSE Some(rules[CHOOSE i \in matching : \A j \in matching : i <= j].controlType)

td_isControlKeywords ==
  {<<"c","o","m","p","a","r","a","t","o","r">>, <<"p","l","a","c","e","b","o">>, <<"s","h","a","m">>, <<"n","o","_","i","n","t","e","r","v","e","n","t","i","o","n">>, <<"n","o"," ","i","n","t","e","r","v","e","n","t","i","o","n">>, <<"c","o","n","t","r","o","l">>}

\* one element of armGroups: arm is the registry's arm group
td_armGroup(registryArm) ==
  LET armType == IF IsDefined(registryArm.type) THEN toLowerCase(registryArm.type[1]) ELSE <<>>
      byType == td_firstRule(td_TypeRules, armType)
      desc == toLowerCase(OrElse(registryArm.description, <<>>))
      lbl == toLowerCase(OrElse(registryArm.label, <<>>))
      textToCheck == desc \o <<" ">> \o lbl
      controlType == IF ~IsDefined(byType) THEN td_firstRule(td_TextRules, textToCheck) ELSE byType
  IN  [label |-> Some(OrElse(registryArm.label, <<>>)),
       type |-> Some(OrElse(registryArm.type, <<>>)),
       description |-> Some(OrElse(registryArm.description, <<>>)),
       isControl |-> Some(\E k \in td_isControlKeywords : includes(armType, k)),
       controlType |-> controlType]

-----------------------------------------------------------------------------
(* picoAnalysis: comparator analysis *)

\* if (x) on an optional string: undefined, null and '' are falsy
Truthy(o) == IF IsDefined(o) THEN Len(o[1]) > 0 ELSE FALSE

\* the completion of an expression that raised a TypeError (a method called on
\* undefined); an iteration in which a callee raised ends the whole call, which
\* the aggregators record in the field raised of their accumulators
TypeError == "TypeError"

ComparatorType == {"placebo", "soc", "active", "add-on", "no_intervention", "unknown"}

Placebo_Keywords == {<<"p","l","a","c","e","b","o">>, <<"s","h","a","m">>}

Soc_Keywords ==
  {<<"s","t","a","n","d","a","r","d">>, <<"s","o","c">>, <<"b","e","s","t"," ","s","u","p","p","o","r","t","i","v","e">>,
   <<"u","s","u","a","l"," ","c","a","r","e">>, <<"r","o","u","t","i","n","e"," ","c","a","r","e">>, <<"b","e","s","t"," ","a","v","a","i","l","a","b","l","e">>,
   <<"i","n","v","e","s","t","i","g","a","t","o","r","'","s"," ","c","h","o","i","c","e">>, <<"p","h","y","s","i","c","i","a","n","'","s"," ","c","h","o","i","c","e">>,
   <<"c","u","r","r","e","n","t"," ","s","t","a","n","d","a","r","d">>}

Active_Keywords ==
  {<<"a","c","t","i","v","e">>, <<"c","o","m","p","a","r","a","t","o","r"," ","d","r","u","g">>, <<"a","c","t","i","v","e"," ","c","o","m","p","a","r","a","t","o","r">>, <<"a","c","t","i","v","e"," ","c","o","n","t","r","o","l">>}

AddOn_Keywords == {<<"a","d","d","-","o","n">>, <<"a","d","d","o","n">>, <<"a","d","j","u","n","c","t">>}

NoIntervention_Keywords == {<<"n","o"," ","i","n","t","e","r","v","e","n","t","i","o","n">>, <<"n","o","n","e">>, <<"n","o","_","i","n","t","e","r","v","e","n","t","i","o","n">>}

includesAny(s, keywords) == \E k \in keywords : includes(s, k)

\* the classifier with the active rule tried before the standard-of-care rule
normalizeControlType_activeFirst(controlType) ==
  IF ~Truthy(controlType) THEN "unknown"
  ELSE LET lower == toLowerCase(controlType[1]) IN
       IF includesAny(lower, Placebo_Keywords) THEN "placebo"
       ELSE IF includesAny(lower, Active_Keywords) THEN "active"
       ELSE IF includesAny(lower, Soc_Keywords) THEN "soc"
       ELSE IF includesAny(lower, AddOn_Keywords) THEN "add-on"
       ELSE IF includesAny(lower, NoIntervention_Keywords) THEN "no_intervention"
       ELSE "unknown"

normalizeControlType(controlType) ==
  IF ~Truthy(controlType) THEN "unknown"
  ELSE LET lower == toLowerCase(controlType[1]) IN
       IF includesAny(lower, Placebo_Keywords) THEN "placebo"
       ELSE IF includesAny(lower, Soc_Keywords) THEN "soc"
       ELSE IF includesAny(lower, Active_Keywords) THEN "active"
       ELSE IF includesAny(lower, AddOn_Keywords) THEN "add-on"
       ELSE IF includesAny(lower, NoIntervention_Keywords) THEN "no_intervention"
       ELSE "unknown"

addOnPatterns ==
  {<<"a","d","d","-","o","n">>, <<"a","d","d","o","n">>, <<"p","l","u","s">>, <<"+"," ">>, <<"i","n"," ","c","o","m","b","i","n","a","t","i","o","n">>, <<"a","d","d","e","d"," ","t","o">>,
   <<"o","n"," ","t","o","p"," ","o","f">>, <<"a","d","j","u","n","c","t">>, <<"b","a","c","k","g","r","o","u","n","d"," ","t","h","e","r","a","p","y">>, <<"p","l","u","s"," ","s","t","a","n","d","a","r","d">>,
   <<"c","o","m","b","i","n","a","t","i","o","n"," ","w","i","t","h">>, <<"c","o","n","c","o","m","i","t","a","n","t">>, <<"c","o","m","b","i","n","e","d"," ","w","i","t","h">>, <<"t","o","g","e","t","h","e","r"," ","w","i","t","h">>,
   <<"i","n"," ","a","d","d","i","t","i","o","n"," ","t","o">>, <<"s","u","p","p","l","e","m","e","n","t","e","d"," ","w","i","t","h">>, <<"c","o","-","a","d","m","i","n","i","s","t","e","r","e","d">>, <<"c","o","a","d","m","i","n","i","s","t","e","r","e","d">>,
   <<"b","a","c","k","b","o","n","e">>, <<"b","a","s","e"," ","t","h","e","r","a","p","y">>, <<"u","n","d","e","r","l","y","i","n","g"," ","t","h","e","r","a","p","y">>}

\* the detector reading the description only
detectAddOnDesign_descriptionOnly(arm) ==
  LET desc == toLowerCase(OrElse(arm.description, <<>>))
      text == desc \o <<" ">>
  IN  includesAny(text, addOnPatterns)

detectAddOnDesign(arm) ==
  LET desc == toLowerCase(OrElse(arm.description, <<>>))
      lbl  == toLowerCase(OrElse(arm.label, <<>>))
      text == desc \o <<" ">> \o lbl
  IN  includesAny(text, addOnPatterns)

\* arm.type?.toLowerCase().includes(k): undefined (falsy) when type is undefined
typeIncludes(arm, k) ==
  IF IsDefined(arm.type) THEN includes(toLowerCase(arm.type[1]), k) ELSE FALSE

\* the condition of "Analyze control arms"
isControlArm(arm) ==
  \/ (IF IsDefined(arm.isControl) THEN arm.isControl[1] ELSE FALSE)
  \/ typeIncludes(arm, <<"c","o","m","p","a","r","a","t","o","r">>)
  \/ typeIncludes(arm, <<"c","o","n","t","r","o","l">>)
  \/ typeIncludes(arm, <<"p","l","a","c","e","b","o">>)

\* arm.controlType || arm.type
controlTypeHint(arm) == IF Truthy(arm.controlType) THEN arm.controlType ELSE arm.type

\* the buckets of normalizePhase on the lower-cased phase text
phaseBucket(lower) ==
       IF includes(lower, <<"1">>) /\ includes(lower, <<"2">>) THEN "Phase 1/2"
       ELSE IF includes(lower, <<"2">>) /\ includes(lower, <<"3">>) THEN "Phase 2/3"
       ELSE IF includes(lower, <<"1">>) THEN "Phase 1"
       ELSE IF includes(lower, <<"2">>) THEN "Phase 2"
       ELSE IF includes(lower, <<"3">>) THEN "Phase 3"
       ELSE IF includes(lower, <<"4">>) THEN "Phase 4"
       ELSE "unknown"

\* normalizePhase without the !phase guard: phase.toLowerCase() on undefined raises
normalizePhase_unguarded(phase) ==
  IF ~IsDefined(phase) THEN TypeError ELSE phaseBucket(toLowerCase(phase[1]))

normalizePhase(phase) ==
  IF ~Truthy(phase) THEN "unknown" ELSE phaseBucket(toLowerCase(phase[1]))

-----------------------------------------------------------------------------
(* picoAnalysis: helpers shared by the two aggregators *)

Null == <<>>

\* a call that returned v / a call that raised
Normal(v) == [completion |-> "normal", value |-> v]

Throw == [completion |-> "throw"]

countIn(types, t) == Cardinality({j \in 1..Len(types) : types[j] = t})

\* the keys of the object built by types.reduce((acc, t) => { acc[t] = (acc[t] || 0) + 1 }),
\* in insertion order: each type at its first occurrence
RECURSIVE keysInOrder(_)
keysInOrder(types) ==
  IF Len(types) = 0 THEN <<>>
  ELSE LET front == SubSeq(types, 1, Len(types) - 1)
           last  == types[Len(types)]
       IN  IF countIn(front, last) > 0 THEN keysInOrder(front)
           ELSE Append(keysInOrder(front), last)

\* Object.entries(counts)
countEntries(types) ==
  LET keys == keysInOrder(types)
  IN  [j \in 1..Len(keys) |-> <<keys[j], countIn(types, keys[j])>>]

\* one insertion of the stable sort: e goes behind every entry that does not
\* compare greater, i.e. whose count is >= e's count
RECURSIVE insertByCount(_, _)
insertByCount(sorted, e) ==
  IF Len(sorted) = 0 THEN <<e>>
  ELSE IF Head(sorted)[2] >= e[2] THEN <<Head(sorted)>> \o insertByCount(Tail(sorted), e)
  ELSE <<e>> \o sorted

\* entries.sort((a, b) => b[1] - a[1]): stable, descending by count
RECURSIVE sortByCountDesc(_)
sortByCountDesc(entries) ==
  IF Len(entries) = 0 THEN <<>>
  ELSE insertByCount(sortByCountDesc(SubSeq(entries, 1, Len(entries) - 1)),
                     entries[Len(entries)])

\* Object.entries(counts).sort((a, b) => b[1] - a[1])[0][0] of a non-empty list
mostCommon(types) == sortByCountDesc(countEntries(types))[1][1]

Max2(a, b) == IF a >= b THEN a ELSE b

-----------------------------------------------------------------------------
(* picoAnalysis: analyzeComparators *)

\* The notes are sequences of the pushed parts; join('') concatenates them.
\* Accented letters of the source text are written without their accent.
NotEvaluableNote == "No evaluable con los datos disponibles."

\* the note with the active clause pushed whenever hasActive is true
generateComparatorNote_activeAlways(predominant, hasActive, addOn, totalTrials) ==
  IF predominant = "not_evaluable" THEN <<NotEvaluableNote>>
  ELSE
    LET main ==
          CASE predominant = "placebo" ->
                 <<"La evidencia se apoya mayoritariamente en comparaciones frente a placebo">>
            [] predominant = "soc" ->
                 <<"La evidencia se basa principalmente en comparaciones frente a tratamiento estandar">>
            [] predominant = "active" ->
                 <<"Los ensayos incluyen comparadores activos directos">>
            [] predominant = "add-on" ->
                 <<"Los disenos add-on sobre terapia base son predominantes">>
            [] predominant = "mixed" ->
                 <<"La evidencia presenta heterogeneidad en los comparadores utilizados">>
            [] OTHER -> <<>>
        addOnPart ==
          IF addOn = "relevant" \/ addOn = "minority"
          THEN <<", con presencia limitada de disenos add-on">>
          ELSE IF addOn = "predominant"
          THEN <<", mayoritariamente en diseno add-on">>
          ELSE <<>>
        activePart ==
          IF hasActive
          THEN <<". Existen comparaciones activas directas en parte de la evidencia">>
          ELSE <<>>
    IN  main \o addOnPart \o activePart \o <<".">>

generateComparatorNote(predominant, hasActive, addOn, totalTrials) ==
  IF predominant = "not_evaluable" THEN <<NotEvaluableNote>>
  ELSE
    LET main ==
          CASE predominant = "placebo" ->
                 <<"La evidencia se apoya mayoritariamente en comparaciones frente a placebo">>
            [] predominant = "soc" ->
                 <<"La evidencia se basa principalmente en comparaciones frente a tratamiento estandar">>
            [] predominant = "active" ->
                 <<"Los ensayos incluyen comparadores activos directos">>
            [] predominant = "add-on" ->
                 <<"Los disenos add-on sobre terapia base son predominantes">>
            [] predominant = "mixed" ->
                 <<"La evidencia presenta heterogeneidad en los comparadores utilizados">>
            [] OTHER -> <<>>
        addOnPart ==
          IF addOn = "relevant" \/ addOn = "minority"
          THEN <<", con presencia limitada de disenos add-on">>
          ELSE IF addOn = "predominant"
          THEN <<", mayoritariamente en diseno add-on">>
          ELSE <<>>
        activePart ==
          IF hasActive /\ predominant # "active"
          THEN <<". Existen comparaciones activas directas en parte de la evidencia">>
          ELSE <<>>
    IN  main \o addOnPart \o activePart \o <<".">>

priorityOrder == <<"active", "soc", "placebo", "add-on", "no_intervention", "unknown">>

\* the trial represented by the type of its first control-like arm
primaryComparatorOf_firstArm(trialComparatorTypes) ==
  IF Len(trialComparatorTypes) > 0 THEN trialComparatorTypes[1] ELSE "unknown"

\* priorityOrder.find(type => trialComparatorTypes.includes(type)) || 'unknown'
primaryComparatorOf(trialComparatorTypes) ==
  IF \E k \in 1..Len(priorityOrder) : countIn(trialComparatorTypes, priorityOrder[k]) > 0
  THEN priorityOrder[CHOOSE k \in 1..Len(priorityOrder) :
         /\ countIn(trialComparatorTypes, priorityOrder[k]) > 0
         /\ \A h \in 1..(k - 1) : countIn(trialComparatorTypes, priorityOrder[h]) = 0]
  ELSE "unknown"

\* the accumulators declared before the loop over the trials
comparatorStart ==
  [comparatorCounts |-> [t \in ComparatorType |-> 0],
   trialsWithAddOn |-> 0,
   trialsWithActiveComparator |-> 0,
   comparatorByPhase |-> [p \in {} |-> <<>>],
   raised |-> FALSE]

\* one iteration of the loop over the trials
comparatorIteration(acc, trial) ==
  LET arms == OrEmptyList(trial.arms)
      trialHasAddOn == \E j \in 1..Len(arms) : detectAddOnDesign(arms[j])
      controlArms == SelectSeq(arms, isControlArm)
      trialComparatorTypes ==
        [j \in 1..Len(controlArms) |-> normalizeControlType(controlTypeHint(controlArms[j]))]
      primaryComparator == primaryComparatorOf(trialComparatorTypes)
      phase == normalizePhase(trial.phase)
      counted == Len(trialComparatorTypes) > 0
      raisedHere ==
        \/ countIn(trialComparatorTypes, TypeError) > 0
        \/ (counted /\ phase = TypeError)
  IN  IF acc.raised \/ raisedHere THEN [acc EXCEPT !.raised = TRUE]
      ELSE
      [comparatorCounts |->
         IF counted
         THEN [acc.comparatorCounts EXCEPT ![primaryComparator] = @ + 1]
         ELSE acc.comparatorCounts,
       trialsWithAddOn |-> acc.trialsWithAddOn + (IF trialHasAddOn THEN 1 ELSE 0),
       trialsWithActiveComparator |->
         acc.trialsWithActiveComparator + countIn(trialComparatorTypes, "active"),
       comparatorByPhase |->
         IF counted
         THEN [p \in DOMAIN acc.comparatorByPhase \cup {phase} |->
                 IF p = phase
                 THEN (IF p \in DOMAIN acc.comparatorByPhase
                       THEN Append(acc.comparatorByPhase[p], primaryComparator)
                       ELSE <<primaryComparator>>)
                 ELSE acc.comparatorByPhase[p]]
         ELSE acc.comparatorByPhase,
       raised |-> FALSE]

RECURSIVE comparatorLoop(_, _, _)
comparatorLoop(trialList, i, acc) ==
  IF i > Len(trialList) THEN acc
  ELSE comparatorLoop(trialList, i + 1, comparatorIteration(acc, trialList[i]))

\* validTotal: the counts of every type but 'unknown'
validTotalOf(comparatorCounts) ==
  comparatorCounts["placebo"] + comparatorCounts["soc"] + comparatorCounts["active"]
    + comparatorCounts["add-on"] + comparatorCounts["no_intervention"]

\* the predominance test with >= 0.50 in place of > 0.50
predominantComparatorOf_atLeastHalf(comparatorCounts) ==
  LET validTotal == validTotalOf(comparatorCounts)
      maxCount == Max2(Max2(comparatorCounts["placebo"], comparatorCounts["soc"]),
                       Max2(comparatorCounts["active"], comparatorCounts["add-on"]))
  IN  IF validTotal > 0
      THEN IF 2 * maxCount >= validTotal
           THEN IF maxCount = comparatorCounts["placebo"] THEN "placebo"
                ELSE IF maxCount = comparatorCounts["soc"] THEN "soc"
                ELSE IF maxCount = comparatorCounts["active"] THEN "active"
                ELSE IF maxCount = comparatorCounts["add-on"] THEN "add-on"
                ELSE "not_evaluable"
           ELSE "mixed"
      ELSE "not_evaluable"

\* maxCount / validTotal > 0.50 is 2 * maxCount > validTotal
predominantComparatorOf(comparatorCounts) ==
  LET validTotal == validTotalOf(comparatorCounts)
      maxCount == Max2(Max2(comparatorCounts["placebo"], comparatorCounts["soc"]),
                       Max2(comparatorCounts["active"], comparatorCounts["add-on"]))
  IN  IF validTotal > 0
      THEN IF 2 * maxCount > validTotal
           THEN IF maxCount = comparatorCounts["placebo"] THEN "placebo"
                ELSE IF maxCount = comparatorCounts["soc"] THEN "soc"
                ELSE IF maxCount = comparatorCounts["active"] THEN "active"
                ELSE IF maxCount = comparatorCounts["add-on"] THEN "add-on"
                ELSE "not_evaluable"
           ELSE "mixed"
      ELSE "not_evaluable"

\* trialsWithAddOn / totalTrials against 0, 0.20 (k/n < 1/5) and 0.50 (k/n <= 1/2)
\* the buckets with exactly 0.20 counted as minority
addOnDesignsOf_fifthIsMinority(trialsWithAddOn, totalTrials) ==
  IF totalTrials > 0
  THEN IF trialsWithAddOn = 0 THEN "not_present"
       ELSE IF 5 * trialsWithAddOn <= totalTrials THEN "minority"
       ELSE IF 2 * trialsWithAddOn <= totalTrials THEN "relevant"
       ELSE "predominant"
  ELSE "not_evaluable"

addOnDesignsOf(trialsWithAddOn, totalTrials) ==
  IF totalTrials > 0
  THEN IF trialsWithAddOn = 0 THEN "not_present"
       ELSE IF 5 * trialsWithAddOn < totalTrials THEN "minority"
       ELSE IF 2 * trialsWithAddOn <= totalTrials THEN "relevant"
       ELSE "predominant"
  ELSE "not_evaluable"

\* the two outcomes of the uniqueTypes.size === 1 test exchanged
phaseConsistencyOf_exchanged(comparatorByPhase) ==
  LET phases == DOMAIN comparatorByPhase
      uniqueTypes == {mostCommon(comparatorByPhase[p]) : p \in phases}
  IN  IF Cardinality(phases) > 1
      THEN (IF Cardinality(uniqueTypes) = 1 THEN "changes" ELSE "consistent")
      ELSE IF Cardinality(phases) = 1 THEN "consistent"
      ELSE "not_evaluable"

phaseConsistencyOf(comparatorByPhase) ==
  LET phases == DOMAIN comparatorByPhase
      uniqueTypes == {mostCommon(comparatorByPhase[p]) : p \in phases}
  IN  IF Cardinality(phases) > 1
      THEN (IF Cardinality(uniqueTypes) = 1 THEN "consistent" ELSE "changes")
      ELSE IF Cardinality(phases) = 1 THEN "consistent"
      ELSE "not_evaluable"

\* hasDirectActiveComparator left null when no arm was classified active
hasDirectActiveComparatorOf_nullWhenNone(trialsWithActiveComparator) ==
  IF trialsWithActiveComparator > 0 THEN Some(TRUE) ELSE Null

\* true only from the second active-comparator arm on
hasDirectActiveComparatorOf_atLeastTwo(trialsWithActiveComparator) ==
  Some(trialsWithActiveComparator > 1)

\* hasDirectActiveComparator: trialsWithActiveComparator > 0
hasDirectActiveComparatorOf(trialsWithActiveComparator) ==
  Some(trialsWithActiveComparator > 0)

\* analyzeComparators behind its guard for the empty list
comparatorAnalysisOf(trialList) ==
    LET totalTrials == Len(trialList)
        acc == comparatorLoop(trialList, 1, comparatorStart)
        predominantComparator == predominantComparatorOf(acc.comparatorCounts)
        addOnDesigns == addOnDesignsOf(acc.trialsWithAddOn, totalTrials)
    IN  IF acc.raised THEN Throw
        ELSE Normal([predominantComparator |-> predominantComparator,
                     hasDirectActiveComparator |->
                       hasDirectActiveComparatorOf(acc.trialsWithActiveComparator),
                     addOnDesigns |-> addOnDesigns,
                     phaseConsistency |-> phaseConsistencyOf(acc.comparatorByPhase),
                     structuralNote |->
                       generateComparatorNote(predominantComparator,
                                              acc.trialsWithActiveComparator > 0,
                                              addOnDesigns, totalTrials)])

\* analyzeComparators without the guard for the empty list
analyzeComparators_unguarded(trialList) == comparatorAnalysisOf(trialList)

analyzeComparators(trialList) ==
  IF Len(trialList) = 0
  THEN Normal([predominantComparator |-> "not_evaluable",
               hasDirectActiveComparator |-> Null,
               addOnDesigns |-> "not_evaluable",
               phaseConsistency |-> "not_evaluable",
               structuralNote |-> <<NotEvaluableNote>>])
  ELSE comparatorAnalysisOf(trialList)

-----------------------------------------------------------------------------
(* picoAnalysis: analyzeEndpoints *)

EndpointType ==
  {"OS", "PFS", "DFS", "EFS", "RFS", "TTP", "TTF", "ORR", "CR", "pCR", "CBR", "DCR",
   "DOR", "MRD", "PRO", "safety", "biomarker", "PKPD", "other"}

HARD_CLINICAL_ENDPOINTS == {"OS"}

\* the surrogate list restricted to the response endpoints
SURROGATE_ENDPOINTS_responseOnly ==
  {"ORR", "CR", "pCR", "CBR", "DCR", "DOR", "MRD"}

SURROGATE_ENDPOINTS ==
  {"PFS", "DFS", "EFS", "RFS", "TTP", "TTF", "ORR", "CR", "pCR", "CBR", "DCR", "DOR", "MRD"}

\* the comparisons of classifyEndpoint on the upper-cased label
endpointTypeOfLabel(upper) ==
       IF upper = <<"O","S">> THEN "OS"
       ELSE IF upper = <<"P","F","S">> THEN "PFS"
       ELSE IF upper = <<"D","F","S">> THEN "DFS"
       ELSE IF upper = <<"E","F","S">> THEN "EFS"
       ELSE IF upper = <<"R","F","S">> THEN "RFS"
       ELSE IF upper = <<"T","T","P">> THEN "TTP"
       ELSE IF upper = <<"T","T","F">> THEN "TTF"
       ELSE IF upper = <<"O","R","R">> THEN "ORR"
       ELSE IF upper = <<"C","R">> THEN "CR"
       ELSE IF upper = <<"P","C","R">> THEN "pCR"
       ELSE IF upper = <<"C","B","R">> THEN "CBR"
       ELSE IF upper = <<"D","C","R">> THEN "DCR"
       ELSE IF upper = <<"D","O","R">> THEN "DOR"
       ELSE IF upper = <<"M","R","D">> THEN "MRD"
       ELSE IF includes(upper, <<"Q","O","L">>) \/ includes(upper, <<"P","R","O">>) THEN "PRO"
       ELSE IF upper = <<"S","A","F","E","T","Y">> THEN "safety"
       ELSE IF upper = <<"B","I","O","M","A","R","K","E","R">> THEN "biomarker"
       ELSE IF upper = <<"P","K","/","P","D">> THEN "PKPD"
       ELSE IF upper = <<"R","E","S","O","U","R","C","E"," ","U","S","E">> THEN "other"
       ELSE "other"

\* classifyEndpoint lower-casing the label before the comparisons with 'OS', 'PFS', ...
classifyEndpoint_lowerCased(classification) ==
  IF ~Truthy(classification) THEN "other"
  ELSE endpointTypeOfLabel(toLowerCase(classification[1]))

\* maps the classification label carried by an outcome to an EndpointType
classifyEndpoint(classification) ==
  IF ~Truthy(classification) THEN "other"
  ELSE endpointTypeOfLabel(toUpperCase(classification[1]))

\* the type re-derived from the measure text with trial-detail's rules
outcomeType_fromMeasure(outcome) ==
  classifyEndpoint(Some(td_classifyEndpoint(outcome.measure)))

\* the type the aggregator gives an outcome: classifyEndpoint(outcome.classification)
outcomeType(outcome) == classifyEndpoint(outcome.classification)

generateEndpointNote(dominant, hasHard, surrogate, pros) ==
  IF dominant = "not_evaluable" THEN <<NotEvaluableNote>>
  ELSE
    LET main ==
          CASE dominant = "OS" ->
                 <<"Los ensayos utilizan supervivencia global como variable primaria">>
            [] dominant = "PFS" ->
                 <<"Los ensayos utilizan supervivencia libre de progresion como variable primaria">>
            [] dominant = "ORR" ->
                 <<"La tasa de respuesta objetiva predomina como variable primaria">>
            [] dominant = "PRO" ->
                 <<"Los resultados reportados por pacientes son el endpoint primario principal">>
            [] dominant = "safety" ->
                 <<"Los ensayos se centran en endpoints de seguridad como variable primaria">>
            [] dominant = "other_surrogate" ->
                 <<"Los ensayos utilizan mayoritariamente endpoints subrogados como variable primaria">>
            [] dominant = "mixed" ->
                 <<"Existe heterogeneidad en los endpoints primarios utilizados">>
            [] OTHER -> <<>>
        surrogatePart ==
          IF surrogate = "primary_predominant" /\ dominant # "OS"
          THEN <<", con predominio de endpoints subrogados">>
          ELSE <<>>
        hardPart ==
          IF hasHard /\ dominant # "OS"
          THEN <<". Supervivencia global esta presente en parte de la evidencia">>
          ELSE <<>>
        proPart ==
          IF pros = "relevant" /\ dominant # "PRO"
          THEN <<". Los PROs tienen presencia relevante">>
          ELSE IF pros = "secondary"
          THEN <<". Los PROs aparecen como endpoints secundarios">>
          ELSE <<>>
    IN  main \o surrogatePart \o hardPart \o proPart \o <<".">>

\* the accumulators declared before the loop over the trials
endpointStart ==
  [primaryEndpointCounts |-> [t \in EndpointType |-> 0],
   trialsWithHardPrimary |-> 0,
   trialsWithSurrogatePrimary |-> 0,
   trialsWithSurrogateSecondary |-> 0,
   trialsWithPRO |-> 0,
   trialsWithPROAsPrimary |-> 0,
   primaryEndpointsByTrial |-> <<>>,
   raised |-> FALSE]

\* the loop over the secondary outcomes: it is left at the first outcome of a
\* surrogate type; stoppedAt is that position, or Len + 1 when there is none
secondaryStop(secondaryTypes) ==
  IF \E j \in 1..Len(secondaryTypes) : secondaryTypes[j] \in SURROGATE_ENDPOINTS
  THEN CHOOSE j \in 1..Len(secondaryTypes) :
         /\ secondaryTypes[j] \in SURROGATE_ENDPOINTS
         /\ \A h \in 1..(j - 1) : secondaryTypes[h] \notin SURROGATE_ENDPOINTS
  ELSE Len(secondaryTypes) + 1

\* one iteration of the loop over the trials
endpointIteration(acc, trial) ==
  LET primaryOutcomes == OrEmptyList(trial.primaryOutcomes)
      secondaryOutcomes == OrEmptyList(trial.secondaryOutcomes)
      trialPrimaryTypes ==
        [j \in 1..Len(primaryOutcomes) |-> outcomeType(primaryOutcomes[j])]
      secondaryTypes ==
        [j \in 1..Len(secondaryOutcomes) |-> outcomeType(secondaryOutcomes[j])]
      stop == secondaryStop(secondaryTypes)
      visited == SubSeq(secondaryTypes, 1, IF stop > Len(secondaryTypes) THEN Len(secondaryTypes) ELSE stop)
      trialHasHardPrimary == \E j \in 1..Len(trialPrimaryTypes) : trialPrimaryTypes[j] \in HARD_CLINICAL_ENDPOINTS
      trialHasSurrogatePrimary == \E j \in 1..Len(trialPrimaryTypes) : trialPrimaryTypes[j] \in SURROGATE_ENDPOINTS
      trialHasPROPrimary == countIn(trialPrimaryTypes, "PRO") > 0
      trialHasPRO == trialHasPROPrimary \/ countIn(visited, "PRO") > 0
      raisedHere == countIn(trialPrimaryTypes, TypeError) > 0 \/ countIn(visited, TypeError) > 0
  IN  IF acc.raised \/ raisedHere THEN [acc EXCEPT !.raised = TRUE]
      ELSE
      [primaryEndpointCounts |->
         [t \in EndpointType |-> acc.primaryEndpointCounts[t] + countIn(trialPrimaryTypes, t)],
       trialsWithHardPrimary |-> acc.trialsWithHardPrimary + (IF trialHasHardPrimary THEN 1 ELSE 0),
       trialsWithSurrogatePrimary |->
         acc.trialsWithSurrogatePrimary + (IF trialHasSurrogatePrimary THEN 1 ELSE 0),
       trialsWithSurrogateSecondary |->
         acc.trialsWithSurrogateSecondary + (IF stop <= Len(secondaryTypes) THEN 1 ELSE 0),
       trialsWithPRO |-> acc.trialsWithPRO + (IF trialHasPRO THEN 1 ELSE 0),
       trialsWithPROAsPrimary |-> acc.trialsWithPROAsPrimary + (IF trialHasPROPrimary THEN 1 ELSE 0),
       primaryEndpointsByTrial |-> Append(acc.primaryEndpointsByTrial, trialPrimaryTypes),
       raised |-> FALSE]

RECURSIVE endpointLoop(_, _, _)
endpointLoop(trialList, i, acc) ==
  IF i > Len(trialList) THEN acc
  ELSE endpointLoop(trialList, i + 1, endpointIteration(acc, trialList[i]))

\* the six groups of the dominance calculation, in the order of the object literal
groupOrder == <<"OS", "PFS", "ORR", "PRO", "safety", "other">>

groupedCountsOf(c) ==
  [g \in {"OS", "PFS", "ORR", "PRO", "safety", "other"} |->
     CASE g = "OS" -> c["OS"]
       [] g = "PFS" -> c["PFS"] + c["DFS"] + c["EFS"] + c["RFS"] + c["TTP"] + c["TTF"]
       [] g = "ORR" -> c["ORR"] + c["CR"] + c["pCR"] + c["CBR"] + c["DCR"] + c["DOR"] + c["MRD"]
       [] g = "PRO" -> c["PRO"]
       [] g = "safety" -> c["safety"]
       [] g = "other" -> c["biomarker"] + c["PKPD"] + c["other"]]

RECURSIVE sumOver(_, _)
sumOver(f, S) ==
  IF S = {} THEN 0
  ELSE LET x == CHOOSE y \in S : TRUE IN f[x] + sumOver(f, S \ {x})

maxOver(f, S) == CHOOSE m \in {f[x] : x \in S} : \A x \in S : f[x] <= m

\* the dominance test with >= 0.50 in place of > 0.50
dominantPrimaryEndpointOf_atLeastHalf(primaryEndpointCounts) ==
  LET totalPrimaryEndpoints == sumOver(primaryEndpointCounts, EndpointType)
      groupedCounts == groupedCountsOf(primaryEndpointCounts)
      maxGroupCount == maxOver(groupedCounts, DOMAIN groupedCounts)
      maxGroup == groupOrder[CHOOSE k \in 1..Len(groupOrder) :
                    /\ groupedCounts[groupOrder[k]] = maxGroupCount
                    /\ \A h \in 1..(k - 1) : groupedCounts[groupOrder[h]] # maxGroupCount]
  IN  IF totalPrimaryEndpoints > 0
      THEN IF 2 * maxGroupCount >= totalPrimaryEndpoints
           THEN (IF maxGroup \in {"OS", "PFS", "ORR", "PRO", "safety"} THEN maxGroup
                 ELSE "other_surrogate")
           ELSE "mixed"
      ELSE "not_evaluable"

\* maxGroupCount / totalPrimaryEndpoints > 0.50 is 2 * maxGroupCount > totalPrimaryEndpoints
dominantPrimaryEndpointOf(primaryEndpointCounts) ==
  LET totalPrimaryEndpoints == sumOver(primaryEndpointCounts, EndpointType)
      groupedCounts == groupedCountsOf(primaryEndpointCounts)
      maxGroupCount == maxOver(groupedCounts, DOMAIN groupedCounts)
      maxGroup == groupOrder[CHOOSE k \in 1..Len(groupOrder) :
                    /\ groupedCounts[groupOrder[k]] = maxGroupCount
                    /\ \A h \in 1..(k - 1) : groupedCounts[groupOrder[h]] # maxGroupCount]
  IN  IF totalPrimaryEndpoints > 0
      THEN IF 2 * maxGroupCount > totalPrimaryEndpoints
           THEN (IF maxGroup \in {"OS", "PFS", "ORR", "PRO", "safety"} THEN maxGroup
                 ELSE "other_surrogate")
           ELSE "mixed"
      ELSE "not_evaluable"

\* primary_predominant only above one half, secondary for any other surrogate use
surrogateUsageOf_majorityOnly(trialsWithSurrogatePrimary, trialsWithSurrogateSecondary, totalTrials) ==
  IF totalTrials > 0
  THEN IF 2 * trialsWithSurrogatePrimary > totalTrials THEN "primary_predominant"
       ELSE IF trialsWithSurrogateSecondary > 0 \/ trialsWithSurrogatePrimary > 0
       THEN "secondary"
       ELSE "no"
  ELSE "not_evaluable"

\* trialsWithSurrogatePrimary / totalTrials > 0.50 is 2 * k > n
surrogateUsageOf(trialsWithSurrogatePrimary, trialsWithSurrogateSecondary, totalTrials) ==
  IF totalTrials > 0
  THEN IF 2 * trialsWithSurrogatePrimary > totalTrials THEN "primary_predominant"
       ELSE IF trialsWithSurrogateSecondary > 0 \/ trialsWithSurrogatePrimary > 0
       THEN (IF trialsWithSurrogatePrimary > 0 THEN "primary_predominant" ELSE "secondary")
       ELSE "no"
  ELSE "not_evaluable"

\* trialsWithPRO / totalTrials >= 0.20 is 5 * k >= n
prosPresenceOf(trialsWithPRO, trialsWithPROAsPrimary, totalTrials) ==
  IF totalTrials > 0
  THEN IF trialsWithPRO = 0 THEN "not_present"
       ELSE IF trialsWithPROAsPrimary > 0 \/ 5 * trialsWithPRO >= totalTrials THEN "relevant"
       ELSE "secondary"
  ELSE "not_evaluable"

\* the modal primary type of each trial ('other' for a trial without primary
\* outcomes); max / length >= 0.75 is 4 * max >= 3 * length, >= 0.40 is 5 * max >= 2 * length
endpointConsistencyOf(primaryEndpointsByTrial) ==
  LET n == Len(primaryEndpointsByTrial)
      dominantTypes ==
        [j \in 1..n |->
           IF Len(primaryEndpointsByTrial[j]) = 0 THEN "other"
           ELSE mostCommon(primaryEndpointsByTrial[j])]
      maxShared == CHOOSE m \in {countIn(dominantTypes, dominantTypes[j]) : j \in 1..n} :
                     \A j \in 1..n : countIn(dominantTypes, dominantTypes[j]) <= m
  IN  IF n > 0
      THEN IF 4 * maxShared >= 3 * n THEN "high"
           ELSE IF 5 * maxShared >= 2 * n THEN "moderate"
           ELSE "low"
      ELSE "not_evaluable"

analyzeEndpoints(trialList) ==
  IF Len(trialList) = 0
  THEN Normal([dominantPrimaryEndpoint |-> "not_evaluable",
               hasHardClinicalPrimary |-> Null,
               surrogateUsage |-> "not_evaluable",
               prosPresence |-> "not_evaluable",
               endpointConsistency |-> "not_evaluable",
               structuralNote |-> <<NotEvaluableNote>>])
  ELSE
    LET totalTrials == Len(trialList)
        acc == endpointLoop(trialList, 1, endpointStart)
        dominantPrimaryEndpoint == dominantPrimaryEndpointOf(acc.primaryEndpointCounts)
        hasHardClinicalPrimary == acc.trialsWithHardPrimary > 0
        surrogateUsage == surrogateUsageOf(acc.trialsWithSurrogatePrimary,
                                           acc.trialsWithSurrogateSecondary, totalTrials)
        prosPresence == prosPresenceOf(acc.trialsWithPRO, acc.trialsWithPROAsPrimary, totalTrials)
    IN  IF acc.raised THEN Throw
        ELSE Normal([dominantPrimaryEndpoint |-> dominantPrimaryEndpoint,
                     hasHardClinicalPrimary |-> Some(hasHardClinicalPrimary),
                     surrogateUsage |-> surrogateUsage,
                     prosPresence |-> prosPresence,
                     endpointConsistency |-> endpointConsistencyOf(acc.primaryEndpointsByTrial),
                     structuralNote |->
                       generateEndpointNote(dominantPrimaryEndpoint, hasHardClinicalPrimary,
                                            surrogateUsage, prosPresence)])

-----------------------------------------------------------------------------
(* picoAnalysis: the exported functions *)

analyzePico(trialList) ==
  LET comparator == analyzeComparators(trialList)
      endpoint == analyzeEndpoints(trialList)
  IN  IF comparator.completion = "throw" \/ endpoint.completion = "throw" THEN Throw
      ELSE Normal([comparator |-> comparator.value,
                   endpoint |-> endpoint.value,
                   totalTrials |-> Len(trialList)])

analyzeSingleTrialPico(trial) == analyzePico(<<trial>>)

-----------------------------------------------------------------------------
(* outcome measure texts handed to the classifier *)

Measures == {
  <<"O","v","e","r","a","l","l"," ","S","u","r","v","i","v","a","l"," ","(","O","S",")">>,  \* "Overall Survival (OS)"
  <<"P","r","o","g","r","e","s","s","i","o","n","-","F","r","e","e"," ","S","u","r","v","i","v","a","l">>,  \* "Progression-Free Survival"
  <<"E","O","R","T","C"," ","Q","L","Q","-","C","3","0"," ","s","c","o","r","e">>,  \* "EORTC QLQ-C30 score"
  <<"I","n","c","i","d","e","n","c","e"," ","o","f"," ","G","r","a","d","e"," ","3","+"," ","A","E","s">>,  \* "Incidence of Grade 3+ AEs"
  <<"R","a","n","d","o","m"," ","f","r","e","e","-","t","e","x","t"," ","e","n","d","p","o","i","n","t">>,  \* "Random free-text endpoint"
  <<>>,  \* ""
  <<"O","S">>,  \* "OS"
  <<"o","s"," ","r","a","t","e">>,  \* "os rate"
  <<"D","o","s","e"," ","i","n","t","e","n","s","i","t","y">>,  \* "Dose intensity"
  <<"O","v","e","r","a","l","l"," ","S","u","r","v","i","v","a","l">>,  \* "Overall Survival"
  <<"P","F","S"," ","b","y"," ","R","E","C","I","S","T">>,  \* "PFS by RECIST"
  <<"P","r","o","g","r","e","s","s","i","o","n"," ","f","r","e","e"," ","s","u","r","v","i","v","a","l"," ","a","t"," ","1","2"," ","m","o">>,  \* "Progression free survival at 12 mo"
  <<"D","i","s","e","a","s","e","-","F","r","e","e"," ","S","u","r","v","i","v","a","l">>,  \* "Disease-Free Survival"
  <<"D","F","S">>,  \* "DFS"
  <<"E","v","e","n","t"," ","f","r","e","e"," ","s","u","r","v","i","v","a","l">>,  \* "Event free survival"
  <<"E","F","S">>,  \* "EFS"
  <<"R","e","l","a","p","s","e","-","f","r","e","e"," ","s","u","r","v","i","v","a","l">>,  \* "Relapse-free survival"
  <<"R","e","c","u","r","r","e","n","c","e","-","f","r","e","e"," ","i","n","t","e","r","v","a","l">>,  \* "Recurrence-free interval"
  <<"R","F","S">>,  \* "RFS"
  <<"O","b","j","e","c","t","i","v","e"," ","R","e","s","p","o","n","s","e"," ","R","a","t","e">>,  \* "Objective Response Rate"
  <<"O","v","e","r","a","l","l"," ","r","e","s","p","o","n","s","e"," ","r","a","t","e">>,  \* "Overall response rate"
  <<"O","R","R">>,  \* "ORR"
  <<"C","o","m","p","l","e","t","e"," ","R","e","s","p","o","n","s","e"," ","r","a","t","e">>,  \* "Complete Response rate"
  <<"C","o","m","p","l","e","t","e"," ","r","e","m","i","s","s","i","o","n">>,  \* "Complete remission"
  <<"C","R","/","C","R","i"," ","r","a","t","e">>,  \* "CR/CRi rate"
  <<"P","a","t","h","o","l","o","g","i","c","a","l"," ","c","o","m","p","l","e","t","e"," ","r","e","s","p","o","n","s","e"," ","r","a","t","e">>,  \* "Pathological complete response rate"
  <<"P","a","t","h","o","l","o","g","i","c"," ","C","o","m","p","l","e","t","e"," ","R","e","s","p","o","n","s","e">>,  \* "Pathologic Complete Response"
  <<"p","C","R">>,  \* "pCR"
  <<"p","C","R"," ","r","a","t","e"," ","i","n"," ","b","r","e","a","s","t">>,  \* "pCR rate in breast"
  <<"C","l","i","n","i","c","a","l"," ","b","e","n","e","f","i","t"," ","r","a","t","e">>,  \* "Clinical benefit rate"
  <<"C","B","R">>,  \* "CBR"
  <<"D","i","s","e","a","s","e"," ","c","o","n","t","r","o","l"," ","r","a","t","e">>,  \* "Disease control rate"
  <<"D","C","R"," ","a","t"," ","w","e","e","k"," ","1","2">>,  \* "DCR at week 12"
  <<"D","u","r","a","t","i","o","n"," ","o","f"," ","R","e","s","p","o","n","s","e">>,  \* "Duration of Response"
  <<"D","O","R">>,  \* "DOR"
  <<"T","i","m","e"," ","t","o"," ","p","r","o","g","r","e","s","s","i","o","n">>,  \* "Time to progression"
  <<"T","T","P">>,  \* "TTP"
  <<"T","i","m","e"," ","t","o"," ","t","r","e","a","t","m","e","n","t"," ","f","a","i","l","u","r","e">>,  \* "Time to treatment failure"
  <<"T","i","m","e"," ","t","o"," ","n","e","x","t"," ","t","r","e","a","t","m","e","n","t">>,  \* "Time to next treatment"
  <<"T","T","N","T">>,  \* "TTNT"
  <<"T","i","m","e"," ","t","o"," ","t","r","e","a","t","m","e","n","t"," ","d","i","s","c","o","n","t","i","n","u","a","t","i","o","n">>,  \* "Time to treatment discontinuation"
  <<"T","i","m","e"," ","t","o"," ","n","e","x","t"," ","c","h","e","m","o","t","h","e","r","a","p","y">>,  \* "Time to next chemotherapy"
  <<"T","i","m","e"," ","t","o"," ","r","e","c","o","v","e","r","y">>,  \* "Time to recovery"
  <<"T","i","m","e"," ","t","o"," ","f","i","r","s","t"," ","h","o","s","p","i","t","a","l","i","z","a","t","i","o","n">>,  \* "Time to first hospitalization"
  <<"M","R","D"," ","n","e","g","a","t","i","v","i","t","y">>,  \* "MRD negativity"
  <<"M","i","n","i","m","a","l"," ","r","e","s","i","d","u","a","l"," ","d","i","s","e","a","s","e">>,  \* "Minimal residual disease"
  <<"Q","u","a","l","i","t","y"," ","o","f"," ","l","i","f","e">>,  \* "Quality of life"
  <<"P","a","t","i","e","n","t","-","r","e","p","o","r","t","e","d"," ","f","a","t","i","g","u","e">>,  \* "Patient-reported fatigue"
  <<"P","R","O"," ","s","c","o","r","e">>,  \* "PRO score"
  <<"P","r","o","c","e","s","s"," ","e","v","a","l","u","a","t","i","o","n">>,  \* "Process evaluation"
  <<"S","e","r","i","o","u","s"," ","a","d","v","e","r","s","e"," ","e","v","e","n","t","s">>,  \* "Serious adverse events"
  <<"S","a","f","e","t","y"," ","a","n","d"," ","t","o","l","e","r","a","b","i","l","i","t","y">>,  \* "Safety and tolerability"
  <<"M","a","x","i","m","u","m"," ","t","o","l","e","r","a","t","e","d"," ","d","o","s","e">>,  \* "Maximum tolerated dose"
  <<"P","D","-","L","1"," ","e","x","p","r","e","s","s","i","o","n">>,  \* "PD-L1 expression"
  <<"c","t","D","N","A"," ","l","e","v","e","l">>,  \* "ctDNA level"
  <<"W","a","l","k","i","n","g"," ","d","i","s","t","a","n","c","e">>,  \* "Walking distance"
  <<"C","m","a","x">>,  \* "Cmax"
  <<"P","K"," ","o","f"," ","d","r","u","g">>,  \* "PK of drug"
  <<"P","l","a","s","m","a"," ","c","l","e","a","r","a","n","c","e">>,  \* "Plasma clearance"
  <<"C","o","s","t"," ","p","e","r"," ","Q","A","L","Y">>,  \* "Cost per QALY"
  <<"L","e","n","g","t","h"," ","o","f"," ","s","t","a","y">>,  \* "Length of stay"
  <<"B","o","d","y"," ","w","e","i","g","h","t">>,  \* "Body weight"
  <<"B","l","o","o","d"," ","p","r","e","s","s","u","r","e">>,  \* "Blood pressure"
  <<"O","S"," ","a","n","d"," ","P","F","S">>,  \* "OS and PFS"
  <<"R","e","s","p","o","n","s","e">>,  \* "Response"
  <<"S","c","o","r","e">>,  \* "Score"
  <<"p","a","t","h","o","l","o","g","i","c","a","l"," ","c","o","m","p","l","e","t","e"," ","r","e","s","p","o","n","s","e"," ","(","p","C","R",")">>   \* "pathological complete response (pCR)"
}

NoLabel == <<"none">>

NoResult == [completion |-> "none"]

-----------------------------------------------------------------------------
(* the measure-text classifier applied to one outcome measure *)

InitClassify ==
  /\ tdMeasure \in Measures
  /\ tdLabel = NoLabel
  /\ trials = <<>>
  /\ analysed = <<>>
  /\ result = NoResult
  /\ tdArmGroup = Undefined
  /\ clientArm = Undefined
  /\ armClass = Undefined
  /\ RateLimitUnused
  /\ SearchPageMounted

ClassifyMeasure ==
  /\ tdLabel = NoLabel
  /\ tdLabel' = td_classifyEndpoint(tdMeasure)
  /\ UNCHANGED <<tdMeasure, trials, analysed, result, tdArmGroup, clientArm, armClass, rateVars, searchVars>>

NextClassify == ClassifyMeasure

SpecClassify == InitClassify /\ [][NextClassify]_vars

-----------------------------------------------------------------------------
(* the trials handed to analyzePico *)

Arm(label, type, description, isControl, controlType) ==
  [label |-> label, type |-> type, description |-> description,
   isControl |-> isControl, controlType |-> controlType]

ArmPlacebo ==
  Arm(Some(<<"P","l","a","c","e","b","o">>), Some(<<"P","L","A","C","E","B","O","_","C","O","M","P","A","R","A","T","O","R">>), Some(<<"M","a","t","c","h","i","n","g"," ","p","l","a","c","e","b","o">>),
      Some(TRUE), Some(<<"P","l","a","c","e","b","o">>))

ArmExperimental ==
  Arm(Some(<<"D","r","u","g"," ","X">>), Some(<<"E","X","P","E","R","I","M","E","N","T","A","L">>), Some(<<"D","r","u","g"," ","X"," ","1","0"," ","m","g"," ","d","a","i","l","y">>),
      Some(FALSE), Some(<<"E","x","p","e","r","i","m","e","n","t","a","l">>))

ArmActive ==
  Arm(Some(<<"D","o","c","e","t","a","x","e","l">>), Some(<<"A","C","T","I","V","E","_","C","O","M","P","A","R","A","T","O","R">>), Some(<<"D","o","c","e","t","a","x","e","l"," ","7","5"," ","m","g","/","m","2">>),
      Some(TRUE), Some(<<"A","c","t","i","v","e"," ","C","o","m","p","a","r","a","t","o","r">>))

ArmSoc ==
  Arm(Some(<<"C","o","n","t","r","o","l">>), Some(<<"O","T","H","E","R">>), Some(<<"B","e","s","t"," ","s","u","p","p","o","r","t","i","v","e"," ","c","a","r","e">>),
      Some(TRUE), Some(<<"S","t","a","n","d","a","r","d"," ","o","f"," ","C","a","r","e">>))

ArmNoIntervention ==
  Arm(Some(<<"O","b","s","e","r","v","a","t","i","o","n">>), Some(<<"N","O","_","I","N","T","E","R","V","E","N","T","I","O","N">>), Some(<<>>),
      Some(TRUE), Some(<<"N","o"," ","I","n","t","e","r","v","e","n","t","i","o","n">>))

ArmAddOnControl ==
  Arm(Some(<<"B","a","c","k","g","r","o","u","n","d">>), Some(<<"O","T","H","E","R">>), Some(<<"A","d","j","u","n","c","t"," ","t","h","e","r","a","p","y">>),
      Some(TRUE), Some(<<"A","d","d","-","o","n">>))

\* flagged as a control arm, but neither controlType nor type says of which kind
ArmUnknownControl ==
  Arm(Some(<<"A","r","m"," ","B">>), Some(<<"O","T","H","E","R">>), Undefined, Some(TRUE), Undefined)

\* control-like by its type text only; isControl and controlType are absent
ArmTypeOnly ==
  Arm(Undefined, Some(<<"S","h","a","m"," ","C","o","m","p","a","r","a","t","o","r">>), Undefined, Undefined, Undefined)

ArmCombination ==
  Arm(Some(<<"D","r","u","g"," ","X"," ","p","l","u","s"," ","c","h","e","m","o","t","h","e","r","a","p","y">>), Some(<<"E","X","P","E","R","I","M","E","N","T","A","L">>),
      Some(<<"a","d","m","i","n","i","s","t","e","r","e","d"," ","i","n"," ","c","o","m","b","i","n","a","t","i","o","n"," ","w","i","t","h"," ","s","t","a","n","d","a","r","d"," ","c","h","e","m","o","t","h","e","r","a","p","y">>),
      Undefined, Some(<<>>))

\* every field absent
ArmBare == Arm(Undefined, Undefined, Undefined, Undefined, Undefined)

Outcome(measureText, classification) ==
  [measure |-> measureText, classification |-> classification]

OutOS == Outcome(<<"O","v","e","r","a","l","l"," ","S","u","r","v","i","v","a","l">>, Some(L_OS))

OutOSUnclassified == Outcome(<<"O","v","e","r","a","l","l"," ","S","u","r","v","i","v","a","l">>, Undefined)

OutOSLabelledPFS == Outcome(<<"O","v","e","r","a","l","l"," ","S","u","r","v","i","v","a","l">>, Some(L_PFS))

OutPFS == Outcome(<<"P","r","o","g","r","e","s","s","i","o","n","-","F","r","e","e"," ","S","u","r","v","i","v","a","l">>, Some(L_PFS))

OutQoL == Outcome(<<"E","O","R","T","C"," ","Q","L","Q","-","C","3","0"," ","s","c","o","r","e">>, Some(L_QoLPRO))

OutSafety == Outcome(<<"I","n","c","i","d","e","n","c","e"," ","o","f"," ","G","r","a","d","e"," ","3","+"," ","A","E","s">>, Some(L_Safety))

OutEmptyLabel == Outcome(<<"R","a","n","d","o","m"," ","f","r","e","e","-","t","e","x","t"," ","e","n","d","p","o","i","n","t">>, Some(<<>>))

Outcomes ==
  {OutOS, OutOSUnclassified, OutOSLabelledPFS, OutPFS, OutQoL, OutSafety, OutEmptyLabel}

Trial(phase, arms, primaryOutcomes, secondaryOutcomes) ==
  [phase |-> phase, arms |-> arms,
   primaryOutcomes |-> primaryOutcomes, secondaryOutcomes |-> secondaryOutcomes]

TrialPlaceboPhase2 ==
  Trial(Some(<<"P","H","A","S","E","2">>), Some(<<ArmPlacebo, ArmExperimental>>), Some(<<OutOS>>), Some(<<>>))

TrialActivePhase3 ==
  Trial(Some(<<"P","H","A","S","E","3">>), Some(<<ArmExperimental, ArmActive>>), Some(<<OutOS>>), Undefined)

TrialSocPhase3 ==
  Trial(Some(<<"P","h","a","s","e"," ","3">>), Some(<<ArmSoc, ArmBare>>), Some(<<OutPFS, OutQoL>>), Some(<<OutQoL, OutOS>>))

TrialNoInterventionPhase23 ==
  Trial(Some(<<"P","H","A","S","E","2",","," ","P","H","A","S","E","3">>), Some(<<ArmNoIntervention, ArmExperimental>>), Some(<<>>), Undefined)

TrialAddOnPhase2 ==
  Trial(Some(<<"P","h","a","s","e"," ","2">>), Some(<<ArmAddOnControl, ArmExperimental>>), Some(<<OutSafety>>), Some(<<OutPFS>>))

TrialUnknownControl ==
  Trial(Undefined, Some(<<ArmUnknownControl>>), Some(<<OutOSLabelledPFS>>), Some(<<OutEmptyLabel>>))

TrialNoControl ==
  Trial(Some(<<"N","/","A">>), Some(<<ArmCombination, ArmExperimental>>), Some(<<OutOSUnclassified>>), Some(<<OutSafety>>))

TrialShamPhase1 ==
  Trial(Some(<<"P","h","a","s","e"," ","1">>), Some(<<ArmBare, ArmTypeOnly>>), Undefined, Some(<<OutQoL>>))

\* arms, outcomes and phase all absent
TrialBare == Trial(Undefined, Undefined, Undefined, Undefined)

\* arms and outcomes present but empty, empty phase text
TrialEmpty == Trial(Some(<<>>), Some(<<>>), Some(<<>>), Some(<<>>))

Trials ==
  {TrialPlaceboPhase2, TrialActivePhase3, TrialSocPhase3, TrialNoInterventionPhase23,
   TrialAddOnPhase2, TrialUnknownControl, TrialNoControl, TrialShamPhase1, TrialBare,
   TrialEmpty}

\* the longest trial list analysed
MaxTrials == 3

TrialLists == UNION {[1..n -> Trials] : n \in 0..MaxTrials}

-----------------------------------------------------------------------------
(* cohorts: longer lists over a few kinds of trial *)

OutDFS == Outcome(<<"D","i","s","e","a","s","e","-","f","r","e","e"," ","s","u","r","v","i","v","a","l">>, Some(L_DFS))

OutTTP == Outcome(<<"T","i","m","e"," ","t","o"," ","p","r","o","g","r","e","s","s","i","o","n">>, Some(L_TTP))

OutCR == Outcome(<<"C","o","m","p","l","e","t","e"," ","r","e","s","p","o","n","s","e"," ","r","a","t","e">>, Some(L_CR))

OutMRD == Outcome(<<"M","R","D"," ","n","e","g","a","t","i","v","i","t","y"," ","r","a","t","e">>, Some(L_MRD))

OutBiomarker == Outcome(<<"C","h","a","n","g","e"," ","i","n"," ","c","t","D","N","A"," ","l","e","v","e","l">>, Some(L_Biomarker))

OutPKPD == Outcome(<<"P","l","a","s","m","a"," ","c","o","n","c","e","n","t","r","a","t","i","o","n"," ","a","t"," ","w","e","e","k"," ","4">>, Some(L_PKPD))

\* a placebo arm and an active-comparator arm; a QoL/PRO outcome after a
\* surrogate one among the secondary outcomes
TrialPlaceboAndActive ==
  Trial(Some(<<"P","H","A","S","E","3">>), Some(<<ArmPlacebo, ArmActive, ArmExperimental>>),
        Some(<<OutOS>>), Some(<<OutPFS, OutQoL>>))

\* two arms with add-on wording; a QoL/PRO outcome before a surrogate one
TrialTwoAddOnArms ==
  Trial(Some(<<"P","H","A","S","E","2">>), Some(<<ArmAddOnControl, ArmCombination>>),
        Some(<<OutDFS, OutTTP>>), Some(<<OutQoL, OutPFS>>))

\* a single-arm trial with response endpoints
TrialSingleArm ==
  Trial(Some(<<"P","H","A","S","E","1",","," ","P","H","A","S","E","2">>), Some(<<ArmExperimental>>), Some(<<OutCR, OutMRD>>), Undefined)

\* no surrogate endpoint at all; two control arms of the weakest types
TrialObservation ==
  Trial(Undefined, Some(<<ArmUnknownControl, ArmNoIntervention, ArmExperimental>>),
        Some(<<OutBiomarker, OutPKPD, OutSafety>>), Some(<<OutSafety>>))

CohortTrials ==
  {TrialPlaceboAndActive, TrialTwoAddOnArms, TrialSingleArm, TrialObservation, TrialBare}

\* the longest cohort analysed
MaxCohort == 4

CohortLists == UNION {[1..n -> CohortTrials] : n \in 0..MaxCohort}

-----------------------------------------------------------------------------
(* series: the longest lists, over trials that differ in their add-on arms *)

\* no arm, one arm and two arms with add-on wording
SeriesTrials == {TrialPlaceboPhase2, TrialNoControl, TrialTwoAddOnArms}

\* the longest series analysed
MaxSeries == 6

SeriesLists == UNION {[1..n -> SeriesTrials] : n \in 0..MaxSeries}

-----------------------------------------------------------------------------
(* calls of the exported functions *)

Init ==
  /\ trials \in TrialLists
  /\ analysed = <<>>
  /\ result = NoResult
  /\ tdMeasure = <<>>
  /\ tdLabel = NoLabel
  /\ tdArmGroup = Undefined
  /\ clientArm = Undefined
  /\ armClass = Undefined
  /\ RateLimitUnused
  /\ SearchPageMounted

\* analyzePico(trials)
Analyze ==
  /\ result.completion = "none"
  /\ analysed' = trials
  /\ result' = analyzePico(trials)
  /\ UNCHANGED <<trials, tdMeasure, tdLabel, tdArmGroup, clientArm, armClass, rateVars, searchVars>>

\* analyzeSingleTrialPico(trials[i])
AnalyzeSingle ==
  /\ result.completion = "none"
  /\ \E i \in 1..Len(trials) :
       /\ analysed' = <<trials[i]>>
       /\ result' = analyzeSingleTrialPico(trials[i])
  /\ UNCHANGED <<trials, tdMeasure, tdLabel, tdArmGroup, clientArm, armClass, rateVars, searchVars>>

Next == Analyze \/ AnalyzeSingle

Spec == Init /\ [][Next]_vars

-----------------------------------------------------------------------------
(* analyzePico on a cohort *)

InitCohort ==
  /\ trials \in CohortLists
  /\ analysed = <<>>
  /\ result = NoResult
  /\ tdMeasure = <<>>
  /\ tdLabel = NoLabel
  /\ tdArmGroup = Undefined
  /\ clientArm = Undefined
  /\ armClass = Undefined
  /\ RateLimitUnused
  /\ SearchPageMounted

NextCohort == Analyze

SpecCohort == InitCohort /\ [][NextCohort]_vars

-----------------------------------------------------------------------------
(* analyzePico on a series *)

InitSeries ==
  /\ trials \in SeriesLists
  /\ analysed = <<>>
  /\ result = NoResult
  /\ tdMeasure = <<>>
  /\ tdLabel = NoLabel
  /\ tdArmGroup = Undefined
  /\ clientArm = Undefined
  /\ armClass = Undefined
  /\ RateLimitUnused
  /\ SearchPageMounted

NextSeries == Analyze

SpecSeries == InitSeries /\ [][NextSeries]_vars

-----------------------------------------------------------------------------
(* one arm, from the registry record to the comparator loop *)

RegistryArm(label, type, description) ==
  [label |-> label, type |-> type, description |-> description]

RegistryTypes ==
  {Undefined, Some(<<"P","L","A","C","E","B","O","_","C","O","M","P","A","R","A","T","O","R">>), Some(<<"A","C","T","I","V","E","_","C","O","M","P","A","R","A","T","O","R">>), Some(<<"S","H","A","M","_","C","O","M","P","A","R","A","T","O","R">>),
   Some(<<"N","O","_","I","N","T","E","R","V","E","N","T","I","O","N">>), Some(<<"E","X","P","E","R","I","M","E","N","T","A","L">>), Some(<<"O","T","H","E","R">>)}

ArmDescriptions ==
  {Undefined, Some(<<" "," "," ">>), Some(<<"M","a","t","c","h","i","n","g"," ","p","l","a","c","e","b","o">>),
   Some(<<"A","d","m","i","n","i","s","t","e","r","e","d"," ","i","n"," ","c","o","m","b","i","n","a","t","i","o","n"," ","w","i","t","h"," ","s","t","a","n","d","a","r","d"," ","c","h","e","m","o","t","h","e","r","a","p","y">>),
   Some(<<"S","i","n","g","l","e","-","a","g","e","n","t"," ","m","o","n","o","t","h","e","r","a","p","y">>), Some(<<"S","t","a","n","d","a","r","d"," ","t","h","e","r","a","p","y"," ","p","e","r"," ","i","n","v","e","s","t","i","g","a","t","o","r"," ","+">>),
   Some(<<"A","c","t","i","v","e"," ","c","o","n","t","r","o","l",":"," ","d","o","c","e","t","a","x","e","l">>)}

ArmLabels ==
  {Undefined, Some(<<>>), Some(<<" ">>), Some(<<"C","h","e","m","o","t","h","e","r","a","p","y">>), Some(<<"D","r","u","g"," ","X"," ","P","L","U","S"," ","c","h","e","m","o","t","h","e","r","a","p","y">>)}

RegistryArmGroups ==
  {RegistryArm(l, t, d) : l \in ArmLabels, t \in RegistryTypes, d \in ArmDescriptions}

\* explicit control-type labels a client may hold
ControlTypeHints ==
  {Undefined, Some(<<>>), Some(<<"P","l","a","c","e","b","o">>), Some(<<"S","h","a","m">>), Some(<<"S","t","a","n","d","a","r","d"," ","o","f"," ","C","a","r","e">>),
   Some(<<"S","O","C">>), Some(<<"I","n","v","e","s","t","i","g","a","t","o","r","'","s"," ","C","h","o","i","c","e">>), Some(<<"A","c","t","i","v","e"," ","C","o","m","p","a","r","a","t","o","r">>),
   Some(<<"a","c","t","i","v","e"," ","c","o","m","p","a","r","a","t","o","r"," ","(","s","t","a","n","d","a","r","d"," ","o","f"," ","c","a","r","e",")">>), Some(<<"P","l","a","c","e","b","o"," ","p","l","u","s"," ","s","t","a","n","d","a","r","d"," ","t","h","e","r","a","p","y">>),
   Some(<<"A","d","d","-","o","n">>), Some(<<"A","d","j","u","n","c","t"," ","t","o"," ","a","c","t","i","v","e"," ","c","o","n","t","r","o","l">>), Some(<<"N","o"," ","I","n","t","e","r","v","e","n","t","i","o","n">>),
   Some(<<"N","o","n","e">>), Some(<<"E","x","p","e","r","i","m","e","n","t","a","l">>), Some(<<"O","t","h","e","r">>)}

ClientTypes ==
  {Undefined, Some(<<"O","T","H","E","R">>), Some(<<"A","C","T","I","V","E","_","C","O","M","P","A","R","A","T","O","R">>), Some(<<"C","o","n","t","r","o","l">>), Some(<<"E","X","P","E","R","I","M","E","N","T","A","L">>)}

ClientArms ==
  {Arm(l, t, d, c, h) : l \in ArmLabels, t \in ClientTypes, d \in ArmDescriptions,
                        c \in {Undefined, Some(TRUE), Some(FALSE)}, h \in ControlTypeHints}

\* the arm comes from trial-detail's registry record, or the client holds it already
InitArms ==
  /\ \/ tdArmGroup \in {Some(g) : g \in RegistryArmGroups} /\ clientArm = Undefined
     \/ tdArmGroup = Undefined /\ clientArm \in {Some(a) : a \in ClientArms}
  /\ armClass = Undefined
  /\ trials = <<>>
  /\ analysed = <<>>
  /\ result = NoResult
  /\ tdMeasure = <<>>
  /\ tdLabel = NoLabel
  /\ RateLimitUnused
  /\ SearchPageMounted

\* trial-detail maps the arm group and the client receives the Arm
IngestArm ==
  /\ IsDefined(tdArmGroup)
  /\ clientArm = Undefined
  /\ clientArm' = Some(td_armGroup(tdArmGroup[1]))
  /\ UNCHANGED <<tdArmGroup, armClass, trials, analysed, result, tdMeasure, tdLabel, rateVars, searchVars>>

\* the body of the loop over a trial's arms in analyzeComparators
ClassifyArm ==
  /\ IsDefined(clientArm)
  /\ armClass = Undefined
  /\ armClass' =
       Some([addOn |-> detectAddOnDesign(clientArm[1]),
             controlLike |-> isControlArm(clientArm[1]),
             controlType |->
               IF isControlArm(clientArm[1])
               THEN Some(normalizeControlType(controlTypeHint(clientArm[1])))
               ELSE Undefined])
  /\ UNCHANGED <<tdArmGroup, clientArm, trials, analysed, result, tdMeasure, tdLabel, rateVars, searchVars>>

NextArms == IngestArm \/ ClassifyArm

SpecArms == InitArms /\ [][NextArms]_vars

-----------------------------------------------------------------------------
(* what the properties speak about *)

Returned == result.completion = "normal"

Called == result.completion # "none"

Comparator == result.value.comparator

Endpoint == result.value.endpoint

\* the control-like arms of a trial and the types they are classified as
ControlArmsOf(trial) ==
  {j \in 1..Len(OrEmptyList(trial.arms)) : isControlArm(OrEmptyList(trial.arms)[j])}

ControlTypesOf(trial) ==
  {normalizeControlType(controlTypeHint(OrEmptyList(trial.arms)[j])) : j \in ControlArmsOf(trial)}

HasControlArm(trial) == ControlArmsOf(trial) # {}

Rank(type) == CHOOSE k \in 1..6 : priorityOrder[k] = type

\* the representative type of a trial that has control-like arms
RepresentativeType(trial) ==
  CHOOSE t \in ControlTypesOf(trial) : \A u \in ControlTypesOf(trial) : Rank(t) <= Rank(u)

\* per trial: its representative type, "none" for a trial without control-like arm
RepresentativeTypeOf ==
  [t \in Trials \cup CohortTrials |-> IF HasControlArm(t) THEN RepresentativeType(t) ELSE "none"]

\* the positions of the trials of a list represented by type t
RepresentedBy(list, t) == {i \in 1..Len(list) : RepresentativeTypeOf[list[i]] = t}

ValidTotal(list) ==
  Cardinality({i \in 1..Len(list) : RepresentativeTypeOf[list[i]] \notin {"none", "unknown"}})

\* per trial: its normalized phase bucket
PhaseBucketOf == [t \in Trials |-> normalizePhase(t.phase)]

\* the positions of the trials of a list that have a control-like arm
Controlled(list) == {i \in 1..Len(list) : RepresentativeTypeOf[list[i]] # "none"}

\* the phase buckets holding a trial with a control-like arm
Buckets(list) == {PhaseBucketOf[list[i]] : i \in Controlled(list)}

CountInBucket(list, b, t) ==
  Cardinality({i \in Controlled(list) :
                 PhaseBucketOf[list[i]] = b /\ RepresentativeTypeOf[list[i]] = t})

\* the most frequent representative types of bucket b (several when tied)
ModalTypes(list, b) ==
  {t \in ComparatorType :
     /\ CountInBucket(list, b, t) > 0
     /\ \A u \in ComparatorType : CountInBucket(list, b, u) <= CountInBucket(list, b, t)}

PrimaryOf(trial) == OrEmptyList(trial.primaryOutcomes)

SecondaryOf(trial) == OrEmptyList(trial.secondaryOutcomes)

\* a trial whose only primary outcome carries the label OS and that has no
\* secondary outcome
SoleOSPrimary(trial) ==
  /\ Len(PrimaryOf(trial)) = 1
  /\ PrimaryOf(trial)[1].classification = Some(L_OS)
  /\ Len(SecondaryOf(trial)) = 0

\* per trial: whether some arm, control-like or not, is flagged by the add-on detector
HasAddOnArm ==
  [t \in Trials \cup CohortTrials \cup SeriesTrials |->
     \E j \in 1..Len(OrEmptyList(t.arms)) : detectAddOnDesign(OrEmptyList(t.arms)[j])]

AddOnTrials(list) == Cardinality({i \in 1..Len(list) : HasAddOnArm[list[i]]})

\* a non-empty list none of whose trials has a control-like arm
NoControlArms(list) == Len(list) >= 1 /\ Controlled(list) = {}

\* a non-empty list none of whose trials has a primary or a secondary outcome
NoOutcomes(list) ==
  /\ Len(list) >= 1
  /\ \A i \in 1..Len(list) : Len(PrimaryOf(list[i])) = 0 /\ Len(SecondaryOf(list[i])) = 0

\* a non-empty list none of whose trials has a primary outcome
NoPrimaryOutcomes(list) ==
  /\ Len(list) >= 1
  /\ \A i \in 1..Len(list) : Len(PrimaryOf(list[i])) = 0

\* per outcome: the label trial-detail's classifier derives from its measure text
DerivedLabelOf == [o \in Outcomes |-> td_classifyEndpoint(o.measure)]

\* an optional outcome list with f applied to each outcome
MapOutcomes(o, f(_)) ==
  IF IsDefined(o) THEN Some([j \in 1..Len(o[1]) |-> f(o[1][j])]) ELSE o

Relabelled(outcome) == [outcome EXCEPT !.classification = Some(DerivedLabelOf[outcome])]

MeasureErased(outcome) == [outcome EXCEPT !.measure = <<>>]

\* the list with every outcome's classification replaced by the label derived
\* from its measure text
Reclassified(list) ==
  [i \in 1..Len(list) |->
     [list[i] EXCEPT !.primaryOutcomes = MapOutcomes(@, Relabelled),
                     !.secondaryOutcomes = MapOutcomes(@, Relabelled)]]

\* the list with every outcome's measure text emptied
WithoutMeasures(list) ==
  [i \in 1..Len(list) |->
     [list[i] EXCEPT !.primaryOutcomes = MapOutcomes(@, MeasureErased),
                     !.secondaryOutcomes = MapOutcomes(@, MeasureErased)]]

\* all primary outcomes of the list, and whether none of them carries a label
PrimaryCount(list) == Cardinality({<<i, j>> \in (1..Len(list)) \X (1..2) : j <= Len(PrimaryOf(list[i]))})

PrimariesUnlabelled(list) ==
  \A i \in 1..Len(list) : \A j \in 1..Len(PrimaryOf(list[i])) :
     ~Truthy(PrimaryOf(list[i])[j].classification)

PredominantValues == {"placebo", "soc", "active", "add-on", "mixed", "not_evaluable"}

AddOnValues == {"not_present", "minority", "relevant", "predominant", "not_evaluable"}

PhaseConsistencyValues == {"consistent", "changes", "not_evaluable"}

DominantValues ==
  {"OS", "PFS", "ORR", "other_surrogate", "PRO", "safety", "mixed", "not_evaluable"}

SurrogateValues == {"no", "secondary", "primary_predominant", "not_evaluable"}

ProsValues == {"not_present", "secondary", "relevant", "not_evaluable"}

EndpointConsistencyValues == {"high", "moderate", "low", "not_evaluable"}

-----------------------------------------------------------------------------
(* properties of analyzePico *)

\* C1: analyzePico of the empty trial list returns totalTrials = 0, every enum
\* field not_evaluable and both boolean fields null.
C1_EmptyInput ==
  (Returned /\ Len(analysed) = 0) =>
    /\ result.value.totalTrials = 0
    /\ Comparator.predominantComparator = "not_evaluable"
    /\ Comparator.addOnDesigns = "not_evaluable"
    /\ Comparator.phaseConsistency = "not_evaluable"
    /\ Comparator.hasDirectActiveComparator = Null
    /\ Endpoint.dominantPrimaryEndpoint = "not_evaluable"
    /\ Endpoint.surrogateUsage = "not_evaluable"
    /\ Endpoint.prosPresence = "not_evaluable"
    /\ Endpoint.endpointConsistency = "not_evaluable"
    /\ Endpoint.hasHardClinicalPrimary = Null

C1_Witness == Returned /\ Len(trials) = 0 /\ Len(analysed) = 0

\* C2: analyzePico never raises: every call, also on trials whose arms,
\* outcomes, phase, isControl, controlType or classification are absent or
\* empty, returns a PicoAnalysis whose totalTrials is the length of the list and
\* whose enum fields lie in their closed sets; with validTotal > 0 the
\* predominant comparator has been assigned.
C2_Total ==
  Called =>
    /\ Returned
    /\ result.value.totalTrials = Len(analysed)
    /\ Comparator.predominantComparator \in PredominantValues
    /\ Comparator.addOnDesigns \in AddOnValues
    /\ Comparator.phaseConsistency \in PhaseConsistencyValues
    /\ Comparator.hasDirectActiveComparator \in {Null, Some(TRUE), Some(FALSE)}
    /\ Endpoint.dominantPrimaryEndpoint \in DominantValues
    /\ Endpoint.surrogateUsage \in SurrogateValues
    /\ Endpoint.prosPresence \in ProsValues
    /\ Endpoint.endpointConsistency \in EndpointConsistencyValues
    /\ Endpoint.hasHardClinicalPrimary \in {Null, Some(TRUE), Some(FALSE)}
    /\ (ValidTotal(analysed) > 0 =>
          Comparator.predominantComparator \in PredominantValues \ {"not_evaluable"})

\* a returned call on a list holding a trial without phase whose control arm
\* has no controlType, a trial with every field absent and an outcome without
\* classification
C2_Witness ==
  /\ Returned
  /\ Len(analysed) = 3
  /\ \E i, j, k \in 1..3 :
       /\ analysed[i] = TrialBare
       /\ analysed[j] = TrialUnknownControl
       /\ analysed[k] = TrialNoControl

\* C4: for a non-empty list, predominantComparator is not_evaluable iff
\* validTotal = 0; it is one of placebo, soc, active, add-on iff the trials
\* represented by that type are strictly more than half of validTotal; it is
\* mixed in every other case.  One placebo trial and one active trial give
\* mixed; a single trial with a placebo control arm and an experimental arm
\* gives placebo and hasDirectActiveComparator = false.
C4_Predominant ==
  (Returned /\ Len(analysed) > 0) =>
    LET v == ValidTotal(analysed)
        majority(t) == 2 * Cardinality(RepresentedBy(analysed, t)) > v
        four == {"placebo", "soc", "active", "add-on"}
    IN  /\ (Comparator.predominantComparator = "not_evaluable") <=> (v = 0)
        /\ \A t \in four : (Comparator.predominantComparator = t) <=> majority(t)
        /\ (Comparator.predominantComparator = "mixed") <=>
             (v > 0 /\ \A t \in four : ~majority(t))
        /\ (analysed = <<TrialPlaceboPhase2, TrialActivePhase3>> =>
              Comparator.predominantComparator = "mixed")
        /\ (analysed = <<TrialPlaceboPhase2>> =>
              /\ Comparator.predominantComparator = "placebo"
              /\ Comparator.hasDirectActiveComparator = Some(FALSE))

\* the 50/50 split has been analysed
C4_Witness ==
  /\ Returned
  /\ analysed = <<TrialPlaceboPhase2, TrialActivePhase3>>
  /\ Cardinality(RepresentedBy(analysed, "placebo")) = 1
  /\ Cardinality(RepresentedBy(analysed, "active")) = 1
  /\ ValidTotal(analysed) = 2

\* C5: phaseConsistency is computed over the trials with a control-like arm,
\* grouped by normalized phase: not_evaluable iff there is no such trial;
\* consistent with one bucket, or with several buckets sharing a modal type;
\* changes iff there are several buckets whose modal types differ (where two
\* types tie in a bucket, either counts as its modal type).  One Phase 2
\* placebo trial plus one Phase 3 active trial gives changes.
C5_PhaseConsistency ==
  Returned =>
    LET B == Buckets(analysed)
        pc == Comparator.phaseConsistency
    IN  /\ (pc = "not_evaluable") <=> (Controlled(analysed) = {})
        /\ Cardinality(B) = 1 => pc = "consistent"
        /\ pc = "consistent" =>
             \/ Cardinality(B) = 1
             \/ /\ Cardinality(B) >= 2
                /\ \E t \in ComparatorType : \A b \in B : t \in ModalTypes(analysed, b)
        /\ pc = "changes" =>
             /\ Cardinality(B) >= 2
             /\ \E b1, b2 \in B :
                  /\ b1 # b2
                  /\ \E t1 \in ModalTypes(analysed, b1), t2 \in ModalTypes(analysed, b2) : t1 # t2
        /\ (analysed = <<TrialPlaceboPhase2, TrialActivePhase3>> => pc = "changes")

\* the Phase 2 placebo trial and the Phase 3 active trial have been analysed
C5_Witness ==
  /\ Returned
  /\ analysed = <<TrialPlaceboPhase2, TrialActivePhase3>>
  /\ Buckets(analysed) = {"Phase 2", "Phase 3"}
  /\ ModalTypes(analysed, "Phase 2") = {"placebo"}
  /\ ModalTypes(analysed, "Phase 3") = {"active"}

\* C6: n >= 1 trials, each with OS as its only primary outcome and without
\* secondary outcomes, give dominantPrimaryEndpoint = OS,
\* hasHardClinicalPrimary = true and surrogateUsage = no.
C6_OSDominance ==
  (Returned /\ Len(analysed) >= 1 /\ \A i \in 1..Len(analysed) : SoleOSPrimary(analysed[i])) =>
    /\ Endpoint.dominantPrimaryEndpoint = "OS"
    /\ Endpoint.hasHardClinicalPrimary = Some(TRUE)
    /\ Endpoint.surrogateUsage = "no"

\* three such trials, not all the same, have been analysed
C6_Witness ==
  /\ Returned
  /\ Len(analysed) = 3
  /\ \A i \in 1..3 : SoleOSPrimary(analysed[i])
  /\ analysed[1] # analysed[3]

\* C7 as stated: without any control-like arm in a non-empty list,
\* predominantComparator, addOnDesigns and phaseConsistency are not_evaluable
\* and hasDirectActiveComparator is null.
C7_Original ==
  (Returned /\ NoControlArms(analysed)) =>
    /\ Comparator.predominantComparator = "not_evaluable"
    /\ Comparator.addOnDesigns = "not_evaluable"
    /\ Comparator.phaseConsistency = "not_evaluable"
    /\ Comparator.hasDirectActiveComparator = Null

\* C7 amended: without any control-like arm in a non-empty list,
\* predominantComparator and phaseConsistency are not_evaluable,
\* hasDirectActiveComparator is false (not null), and addOnDesigns is never
\* not_evaluable: it is the bucket of the fraction k/n of trials with an arm
\* flagged by the add-on detector (not_present for k = 0).
C7_NoControlArms ==
  (Returned /\ NoControlArms(analysed)) =>
    LET n == Len(analysed)
        k == AddOnTrials(analysed)
    IN  /\ Comparator.predominantComparator = "not_evaluable"
        /\ Comparator.phaseConsistency = "not_evaluable"
        /\ Comparator.hasDirectActiveComparator = Some(FALSE)
        /\ Comparator.addOnDesigns # "not_evaluable"
        /\ (Comparator.addOnDesigns = "not_present") <=> (k = 0)
        /\ (Comparator.addOnDesigns = "minority") <=> (k > 0 /\ 5 * k < n)
        /\ (Comparator.addOnDesigns = "relevant") <=> (5 * k >= n /\ 2 * k <= n)
        /\ (Comparator.addOnDesigns = "predominant") <=> (2 * k > n)

\* a list without control-like arms, with and without add-on arms, has been analysed
C7_Witness ==
  /\ Returned
  /\ NoControlArms(analysed)
  /\ Len(analysed) >= 2
  /\ AddOnTrials(analysed) = 1

\* C8: in a non-empty list without any primary or secondary outcome,
\* dominantPrimaryEndpoint, surrogateUsage, prosPresence and
\* endpointConsistency are not_evaluable and hasHardClinicalPrimary is null;
\* endpointConsistency is not_evaluable whenever no trial has a primary outcome.
C8_NoOutcomes ==
  /\ (Returned /\ NoOutcomes(analysed)) =>
       /\ Endpoint.dominantPrimaryEndpoint = "not_evaluable"
       /\ Endpoint.surrogateUsage = "not_evaluable"
       /\ Endpoint.prosPresence = "not_evaluable"
       /\ Endpoint.endpointConsistency = "not_evaluable"
       /\ Endpoint.hasHardClinicalPrimary = Null
  /\ (Returned /\ NoPrimaryOutcomes(analysed)) =>
       Endpoint.endpointConsistency = "not_evaluable"

\* C9 as stated: the aggregator derives each outcome's type from its measure
\* text, so the EndpointAnalysis does not depend on the classification field:
\* it is the analysis of the list whose classifications are replaced by the
\* labels derived from the measures, and a primary outcome "Overall Survival"
\* without classification counts as OS.
C9_Original ==
  Returned =>
    /\ Endpoint = analyzeEndpoints(Reclassified(analysed)).value
    /\ (analysed = <<TrialNoControl>> => Endpoint.dominantPrimaryEndpoint = "OS")

\* C9 amended: the aggregator takes each outcome's type from its classification
\* label and never reads the measure text: emptying every measure leaves the
\* EndpointAnalysis unchanged, and primary outcomes whose classification is
\* absent or empty count as other ("Overall Survival" without classification
\* gives other_surrogate and no hard clinical primary).
C9_LabelDriven ==
  Returned =>
    /\ Endpoint = analyzeEndpoints(WithoutMeasures(analysed)).value
    /\ (PrimaryCount(analysed) >= 1 /\ PrimariesUnlabelled(analysed)) =>
          /\ Endpoint.dominantPrimaryEndpoint = "other_surrogate"
          /\ Endpoint.hasHardClinicalPrimary = Some(FALSE)

\* a list has been analysed whose outcomes' labels disagree with their measures:
\* "Overall Survival" without label and "Overall Survival" labelled PFS
C9_Witness ==
  /\ Returned
  /\ \E i, j \in 1..Len(analysed) :
       /\ analysed[i] = TrialNoControl
       /\ analysed[j] = TrialUnknownControl
  /\ DerivedLabelOf[OutOSUnclassified] = L_OS
  /\ DerivedLabelOf[OutOSLabelledPFS] = L_OS

-----------------------------------------------------------------------------
(* properties of trial-detail's classifyEndpoint *)

Classified == tdLabel # NoLabel

Taxonomy ==
  {L_OS, L_PFS, L_DFS, L_EFS, L_RFS, L_TTP, L_TTF, L_ORR, L_CR, L_pCR, L_CBR, L_DCR,
   L_DOR, L_MRD, L_QoLPRO, L_Safety, L_Biomarker, L_PKPD, L_ResourceUse, L_Other}

\* the keyword tables of rules 1-11
RuleKeywords ==
  {KW_OS, KW_PFS, KW_DFS, KW_EFS, KW_RFS, KW_ORR, KW_CR, KW_pCR, KW_CBR, KW_DCR, KW_DOR,
   KW_TTP, KW_TTF, KW_MRD, KW_QoLPRO, KW_Safety, KW_Biomarker, KW_PKPD, KW_ResourceUse}

\* the text matches a keyword of rules 1-11, "time to" of rule 5 included
MatchesSomeKeyword(text) ==
  LET m == toLowerCase(text)
  IN  includes(m, S_time_to) \/ \E kw \in RuleKeywords : hit(m, kw)

\* C10: the classifier returns OS, PFS, QoL/PRO, Safety and Other for the five
\* fixture texts, returns Other exactly when the text matches no keyword of
\* rules 1-11, and always returns a label of the closed taxonomy.
C10_Classifier ==
  Classified =>
    /\ tdLabel \in Taxonomy
    /\ (tdMeasure = <<"O","v","e","r","a","l","l"," ","S","u","r","v","i","v","a","l"," ","(","O","S",")">> => tdLabel = L_OS)
    /\ (tdMeasure = <<"P","r","o","g","r","e","s","s","i","o","n","-","F","r","e","e"," ","S","u","r","v","i","v","a","l">> => tdLabel = L_PFS)
    /\ (tdMeasure = <<"E","O","R","T","C"," ","Q","L","Q","-","C","3","0"," ","s","c","o","r","e">> => tdLabel = L_QoLPRO)
    /\ (tdMeasure = <<"I","n","c","i","d","e","n","c","e"," ","o","f"," ","G","r","a","d","e"," ","3","+"," ","A","E","s">> => tdLabel = L_Safety)
    /\ (tdMeasure = <<"R","a","n","d","o","m"," ","f","r","e","e","-","t","e","x","t"," ","e","n","d","p","o","i","n","t">> => tdLabel = L_Other)
    /\ (tdLabel = L_Other) <=> ~MatchesSomeKeyword(tdMeasure)

-----------------------------------------------------------------------------
(* one arm in the comparator loop *)

ArmClassified == IsDefined(armClass)

\* the lower-cased description and label of an arm, joined by one space
ArmText(a) ==
  toLowerCase(OrElse(a.description, <<>>)) \o <<" ">> \o toLowerCase(OrElse(a.label, <<>>))

\* some phrase of the vocabulary is a substring of text
ContainsPhrase(text, vocabulary) ==
  \E i \in 1..Len(text) : \E j \in i..Len(text) : SubSeq(text, i, j) \in vocabulary

\* an absent, empty or whitespace-only text
Blank(o) == \A i \in 1..Len(OrElse(o, <<>>)) : o[1][i] = " "

S_in_combination == <<"a","d","m","i","n","i","s","t","e","r","e","d"," ","i","n"," ","c","o","m","b","i","n","a","t","i","o","n"," ","w","i","t","h"," ","s","t","a","n","d","a","r","d"," ","c","h","e","m","o","t","h","e","r","a","p","y">>

S_monotherapy == <<"s","i","n","g","l","e","-","a","g","e","n","t"," ","m","o","n","o","t","h","e","r","a","p","y">>

\* C11: the add-on detector answers true exactly when the arm's lower-cased
\* description/label text contains a phrase of the add-on vocabulary; it answers
\* false when label and description are both empty or whitespace-only, true for
\* a text containing "administered in combination with standard chemotherapy"
\* and false for "single-agent monotherapy".
C11_AddOnDetector ==
  ArmClassified =>
    LET a == clientArm[1]
        flagged == armClass[1].addOn
    IN  /\ flagged <=> ContainsPhrase(ArmText(a), addOnPatterns)
        /\ (Blank(a.label) /\ Blank(a.description)) => ~flagged
        /\ includes(ArmText(a), S_in_combination) => flagged
        /\ (Blank(a.label) /\ toLowerCase(OrElse(a.description, <<>>)) = S_monotherapy) => ~flagged

\* C11 witness: an arm flagged only through its label, its description being blank
C11_Witness ==
  /\ ArmClassified
  /\ armClass[1].addOn
  /\ Blank(clientArm[1].description)
  /\ ~Blank(clientArm[1].label)

\* the ordered rules of the comparator-type classifier
ClassifierRules ==
  << [category |-> "placebo", kw |-> Placebo_Keywords],
     [category |-> "soc", kw |-> Soc_Keywords],
     [category |-> "active", kw |-> Active_Keywords],
     [category |-> "add-on", kw |-> AddOn_Keywords],
     [category |-> "no_intervention", kw |-> NoIntervention_Keywords] >>

\* the rules of which some keyword occurs in the lower-cased text
MatchingRules(text, upTo) ==
  {i \in 1..upTo : ContainsPhrase(toLowerCase(text), ClassifierRules[i].kw)}

\* the category of the lowest-numbered matching rule among the first upTo rules
FirstMatch(text, upTo) ==
  LET matching == MatchingRules(text, upTo) IN
  IF matching = {} THEN "unknown"
  ELSE ClassifierRules[CHOOSE i \in matching : \A j \in matching : i <= j].category

\* the hint of an arm: its controlType, else its type; <<>> when both are absent or empty
HintOf(a) ==
  IF OrElse(a.controlType, <<>>) # <<>> THEN a.controlType[1] ELSE OrElse(a.type, <<>>)

ControlLike == ArmClassified /\ armClass[1].controlLike

S_placebo == <<"p","l","a","c","e","b","o">>

S_standard == <<"s","t","a","n","d","a","r","d">>

S_active == <<"a","c","t","i","v","e">>

\* C13: the comparator type of a control-like arm is the category of the
\* lowest-numbered rule (placebo, standard of care, active comparator, add-on,
\* no intervention) with a keyword in the lower-cased hint, and unknown when no
\* keyword occurs or the hint is empty or absent; placebo wins over standard,
\* standard wins over active.
C13_FirstMatchWins ==
  ControlLike =>
    LET hint == toLowerCase(HintOf(clientArm[1]))
        type == armClass[1].controlType
    IN  /\ type = Some(FirstMatch(hint, 5))
        /\ hint = <<>> => type = Some("unknown")
        /\ (includes(hint, S_placebo) /\ includes(hint, S_standard)) => type = Some("placebo")
        /\ (includes(hint, S_standard) /\ includes(hint, S_active) /\ ~includes(hint, S_placebo))
             => type = Some("soc")

\* C13 witness: a hint with both "standard" and "active" classified standard of care
C13_Witness ==
  /\ ControlLike
  /\ includes(toLowerCase(HintOf(clientArm[1])), S_standard)
  /\ includes(toLowerCase(HintOf(clientArm[1])), S_active)
  /\ armClass[1].controlType = Some("soc")

S_ambiguous == <<"a","c","t","i","v","e"," ","c","o","m","p","a","r","a","t","o","r"," ","(","s","t","a","n","d","a","r","d"," ","o","f"," ","c","a","r","e",")">>

\* C14: the hint "active comparator (standard of care)" is classified active
\* comparator, not standard of care.
C14_AmbiguousHint ==
  (ControlLike /\ toLowerCase(HintOf(clientArm[1])) = S_ambiguous)
    => armClass[1].controlType = Some("active")

\* C15: when the hint of a control-like arm matches no rule, its type is the
\* first match of the placebo, standard-of-care and active rules in the arm's
\* label and description text, and unknown only when that scan fails too.
C15_TextFallback ==
  (ControlLike /\ FirstMatch(HintOf(clientArm[1]), 5) = "unknown")
    => armClass[1].controlType = Some(FirstMatch(ArmText(clientArm[1]), 3))

-----------------------------------------------------------------------------
(* cohorts and series *)

\* the label an outcome carries, <<>> when it carries none
LabelOf(outcome) == OrElse(outcome.classification, <<>>)

PFSFamilyLabels == {L_PFS, L_DFS, L_EFS, L_RFS, L_TTP, L_TTF}

ORRFamilyLabels == {L_ORR, L_CR, L_pCR, L_CBR, L_DCR, L_DOR, L_MRD}

SurrogateLabels == PFSFamilyLabels \cup ORRFamilyLabels

\* some outcome of the list carries one of the labels
HasOutcomeLabelled(outcomes, labels) ==
  \E j \in 1..Len(outcomes) : LabelOf(outcomes[j]) \in labels

\* some primary or secondary outcome of the trial is of type QoL/PRO
HasPRO(trial) ==
  \/ HasOutcomeLabelled(PrimaryOf(trial), {L_QoLPRO})
  \/ HasOutcomeLabelled(SecondaryOf(trial), {L_QoLPRO})

\* C12: a trial is flagged hasPRO exactly when one of its primary or secondary
\* outcomes is of type QoL/PRO, wherever it stands in its list; PRO presence is
\* therefore absent from an analysis exactly when no analysed trial has such an
\* outcome.
C12_ProFlag ==
  (Returned /\ Len(analysed) >= 1) =>
    (Endpoint.prosPresence = "not_present"
       <=> \A i \in 1..Len(analysed) : ~HasPRO(analysed[i]))

\* the counts the comparator loop holds after the trials of list
CountsAfter(list) == comparatorLoop(list, 1, comparatorStart).comparatorCounts

\* C16: after any trial list each comparator count is the number of trials with
\* a control-like arm whose first type in priority order (active, standard of
\* care, placebo, add-on, no intervention, unknown) is that type; the six
\* counts sum to the number of trials with a control-like arm, and validTotal
\* does not exceed totalTrials.
C16_OneCountPerTrial ==
  Returned =>
    \E counts \in {CountsAfter(analysed)} :
    /\ \A t \in ComparatorType : counts[t] = Cardinality(RepresentedBy(analysed, t))
    /\ sumOver(counts, ComparatorType) = Cardinality(Controlled(analysed))
    /\ validTotalOf(counts) <= result.value.totalTrials
    /\ \A i \in 1..Len(analysed) :
         ({"placebo", "active"} \subseteq ControlTypesOf(analysed[i]))
           => i \in RepresentedBy(analysed, "active")

\* C16 witness: a trial with a placebo arm and an active-comparator arm beside
\* a trial without control-like arm; one count, for active
C16_Witness ==
  /\ Returned
  /\ Len(analysed) = 2
  /\ {"placebo", "active"} \subseteq ControlTypesOf(analysed[1])
  /\ ~HasControlArm(analysed[2])
  /\ CountsAfter(analysed)["active"] = 1
  /\ CountsAfter(analysed)["placebo"] = 0

SurrogatePrimaryTrials(list) ==
  {i \in 1..Len(list) : HasOutcomeLabelled(PrimaryOf(list[i]), SurrogateLabels)}

SurrogateSecondaryTrials(list) ==
  {i \in 1..Len(list) : HasOutcomeLabelled(SecondaryOf(list[i]), SurrogateLabels)}

\* C17: for a non-empty list surrogateUsage is primary_predominant exactly when
\* some trial has a surrogate primary outcome, secondary exactly when none has
\* but some trial has a surrogate secondary outcome, and no exactly when no
\* trial has a surrogate outcome.
C17_SurrogateUsage ==
  (Returned /\ Len(analysed) >= 1) =>
    LET p == SurrogatePrimaryTrials(analysed)
        s == SurrogateSecondaryTrials(analysed)
    IN  /\ Endpoint.surrogateUsage = "primary_predominant" <=> p # {}
        /\ Endpoint.surrogateUsage = "secondary" <=> (p = {} /\ s # {})
        /\ Endpoint.surrogateUsage = "no" <=> (p = {} /\ s = {})

\* C17 witness: a surrogate primary outcome in at most half of the trials
C17_Witness ==
  /\ Returned
  /\ Len(analysed) >= 1
  /\ SurrogatePrimaryTrials(analysed) # {}
  /\ 2 * Cardinality(SurrogatePrimaryTrials(analysed)) <= Len(analysed)
  /\ Endpoint.surrogateUsage = "primary_predominant"

SuperCategories == {"OS", "PFS", "ORR", "PRO", "safety", "other"}

SuperCategoryOf(outcome) ==
  LET l == LabelOf(outcome) IN
  IF l = L_OS THEN "OS"
  ELSE IF l \in PFSFamilyLabels THEN "PFS"
  ELSE IF l \in ORRFamilyLabels THEN "ORR"
  ELSE IF l = L_QoLPRO THEN "PRO"
  ELSE IF l = L_Safety THEN "safety"
  ELSE "other"

\* the primary outcomes of a list, as <<trial position, outcome position>>
PrimaryPositions(list) ==
  UNION {{<<i, j>> : j \in 1..Len(PrimaryOf(list[i]))} : i \in 1..Len(list)}

CategoryCount(list, c) ==
  Cardinality({q \in PrimaryPositions(list) :
                 SuperCategoryOf(PrimaryOf(list[q[1]])[q[2]]) = c})

\* the value dominantPrimaryEndpoint takes for a super-category
DominantValueOf(c) == IF c = "other" THEN "other_surrogate" ELSE c

\* C18: dominantPrimaryEndpoint is not_evaluable exactly when there is no
\* primary outcome, the value of a super-category exactly when that
\* super-category holds strictly more than half of all primary outcomes
\* (counted per outcome), and mixed otherwise.
C18_DominantEndpoint ==
  Returned =>
    LET total == Cardinality(PrimaryPositions(analysed)) IN
    /\ Endpoint.dominantPrimaryEndpoint = "not_evaluable" <=> total = 0
    /\ \A c \in SuperCategories :
         Endpoint.dominantPrimaryEndpoint = DominantValueOf(c)
           <=> 2 * CategoryCount(analysed, c) > total
    /\ Endpoint.dominantPrimaryEndpoint = "mixed"
         <=> (total > 0 /\ \A c \in SuperCategories : 2 * CategoryCount(analysed, c) <= total)

\* C18 witness: the largest super-category holds exactly half of the primary
\* outcomes, in fewer than half of the trials
C18_Witness ==
  /\ Returned
  /\ Cardinality(PrimaryPositions(analysed)) > 0
  /\ \E c \in SuperCategories :
       /\ 2 * CategoryCount(analysed, c) = Cardinality(PrimaryPositions(analysed))
       /\ 2 * Cardinality({i \in 1..Len(analysed) :
                             \E j \in 1..Len(PrimaryOf(analysed[i])) :
                               SuperCategoryOf(PrimaryOf(analysed[i])[j]) = c})
            < Len(analysed)
  /\ Endpoint.dominantPrimaryEndpoint = "mixed"

\* per trial: the most frequent type among its primary outcomes, "none" for a
\* trial without primary outcomes
ModalPrimaryTypeOf ==
  [t \in Trials \cup CohortTrials |->
     IF Len(PrimaryOf(t)) = 0 THEN "none"
     ELSE mostCommon([j \in 1..Len(PrimaryOf(t)) |-> outcomeType(PrimaryOf(t)[j])])]

\* the trials of a list that have primary outcomes and whose modal primary
\* type is t
ModalTrials(list, t) == {i \in 1..Len(list) : ModalPrimaryTypeOf[list[i]] = t}

\* the largest number of trials sharing one modal type
LargestModalGroup(list) ==
  CHOOSE m \in {Cardinality(ModalTrials(list, t)) : t \in EndpointType} :
    \A t \in EndpointType : Cardinality(ModalTrials(list, t)) <= m

\* C19: with m the largest number of trials sharing one modal primary type,
\* only trials with primary outcomes contributing, and n the number of trials,
\* endpointConsistency is high when m/n >= 0.75, moderate when
\* 0.40 <= m/n < 0.75 and low when m/n < 0.40.
C19_EndpointConsistency ==
  (Returned /\ Len(analysed) >= 1) =>
    LET m == LargestModalGroup(analysed)
        n == Len(analysed)
    IN  Endpoint.endpointConsistency =
          (IF 4 * m >= 3 * n THEN "high" ELSE IF 5 * m >= 2 * n THEN "moderate" ELSE "low")

\* C20: with k of n >= 1 trials having an arm flagged by the add-on detector,
\* addOnDesigns is not_present when k = 0, minority when 0 < k/n < 0.20,
\* relevant when 0.20 <= k/n <= 0.50 and predominant when k/n > 0.50.
C20_AddOnPrevalence ==
  (Returned /\ Len(analysed) >= 1) =>
    LET k == AddOnTrials(analysed)
        n == Len(analysed)
    IN  /\ Comparator.addOnDesigns = "not_present" <=> k = 0
        /\ Comparator.addOnDesigns = "minority" <=> (k > 0 /\ 5 * k < n)
        /\ Comparator.addOnDesigns = "relevant" <=> (5 * k >= n /\ 2 * k <= n)
        /\ Comparator.addOnDesigns = "predominant" <=> 2 * k > n

\* C20 witness: exactly one trial of five has add-on arms, and it has two
C20_Witness ==
  /\ Returned
  /\ Len(analysed) = 5
  /\ AddOnTrials(analysed) = 1
  /\ \E i \in 1..5 : analysed[i] = TrialTwoAddOnArms
  /\ Comparator.addOnDesigns = "relevant"

\* the positions of the trials of a list with a QoL/PRO outcome, primary or secondary
PROTrials(list) == {i \in 1..Len(list) : HasPRO(list[i])}

\* some trial of the list has a QoL/PRO primary outcome
HasPROPrimary(list) ==
  \E i \in 1..Len(list) : HasOutcomeLabelled(PrimaryOf(list[i]), {L_QoLPRO})

\* C21: with k of n >= 1 trials having a QoL/PRO outcome, prosPresence is
\* not_present when k = 0, relevant when k > 0 and (some trial has a QoL/PRO
\* primary outcome or k/n >= 0.20), and secondary when 0 < k/n < 0.20 and no
\* trial has a QoL/PRO primary outcome.
C21_ProsPresence ==
  (Returned /\ Len(analysed) >= 1) =>
    LET k == Cardinality(PROTrials(analysed))
        n == Len(analysed)
        primary == HasPROPrimary(analysed)
    IN  /\ Endpoint.prosPresence = "not_present" <=> k = 0
        /\ Endpoint.prosPresence = "relevant" <=> (k > 0 /\ (primary \/ 5 * k >= n))
        /\ Endpoint.prosPresence = "secondary" <=> (k > 0 /\ 5 * k < n /\ ~primary)

\* some control-like arm of some trial of the list is classified active
HasActiveArm(list) == \E i \in 1..Len(list) : "active" \in ControlTypesOf(list[i])

\* C22: for a non-empty list hasDirectActiveComparator is true when some
\* control-like arm of some trial is classified active comparator and false
\* otherwise; it is null only for the empty list.
C22_DirectActive ==
  Returned =>
    /\ Len(analysed) = 0 => Comparator.hasDirectActiveComparator = Null
    /\ Len(analysed) >= 1 => Comparator.hasDirectActiveComparator = Some(HasActiveArm(analysed))

\* C22 witness: one active-comparator arm among the arms of several trials
C22_Witness ==
  /\ Returned
  /\ Len(analysed) >= 2
  /\ Cardinality({i \in 1..Len(analysed) : "active" \in ControlTypesOf(analysed[i])}) = 1
  /\ Comparator.hasDirectActiveComparator = Some(TRUE)

-----------------------------------------------------------------------------
(* the measure-text classifier, rule by rule *)

S_pathologic_complete == <<"p","a","t","h","o","l","o","g","i","c"," ","c","o","m","p","l","e","t","e">>

S_pathological_complete == <<"p","a","t","h","o","l","o","g","i","c","a","l"," ","c","o","m","p","l","e","t","e">>

S_pcr == <<"p","c","r">>

\* the lower-cased text names a pathological complete response
NamesPathologicComplete(text) ==
  LET m == toLowerCase(text)
  IN  \/ includes(m, S_pathologic_complete)
      \/ includes(m, S_pathological_complete)
      \/ matchesWord(m, S_pcr)

\* C23: every measure containing "pathologic complete" or "pathological
\* complete", or the standalone abbreviation "pcr", is classified pCR.
C23_PathologicComplete ==
  (Classified /\ NamesPathologicComplete(tdMeasure)) => tdLabel = L_pCR

\* the keyword tables of the rules tried before the generic "time to" rule
RulesBeforeTimeTo ==
  {KW_OS, KW_PFS, KW_DFS, KW_EFS, KW_RFS, KW_ORR, KW_CR, KW_pCR, KW_CBR, KW_DCR, KW_DOR,
   KW_TTP, KW_TTF}

\* the text contains "time to" and matches no keyword of an earlier rule
OtherTimeTo(text) ==
  LET m == toLowerCase(text)
  IN  /\ includes(m, S_time_to)
      /\ \A kw \in RulesBeforeTimeTo : ~hit(m, kw)

\* C24: every measure that contains "time to" and is matched by none of the
\* earlier rules is classified TTP.
C24_TimeToFallback ==
  (Classified /\ OtherTimeTo(tdMeasure)) => tdLabel = L_TTP

-----------------------------------------------------------------------------
(* the order of the trials *)

Orderings(n) == {p \in [1..n -> 1..n] : \A i, j \in 1..n : p[i] = p[j] => i = j}

Reordered(list, p) == [i \in 1..Len(list) |-> list[p[i]]]

\* C25: analyzePico returns the same analysis, field by field, for every
\* reordering of the trial list it was given.
C25_OrderInvariance ==
  Returned =>
    \A p \in Orderings(Len(analysed)) : analyzePico(Reordered(analysed, p)) = result

(* ---------------------------------------------------------------- *)
(* heterogeneity of the comparators                                  *)
(* ---------------------------------------------------------------- *)

\* the representative types occurring among the trials of a list
RepresentativeTypes(list) == {RepresentativeTypeOf[list[i]] : i \in Controlled(list)}

\* C26: the predominant comparator is reported as mixed only for a list in
\* which at least two distinct representative comparator types occur.
C26_MixedNeedsTwoTypes ==
  (Returned /\ Comparator.predominantComparator = "mixed") =>
    Cardinality(RepresentativeTypes(analysed)) >= 2

(* ---------------------------------------------------------------- *)
(* coherence between the fields of one analysis                      *)
(* ---------------------------------------------------------------- *)

\* C27: in every returned analysis, a predominant active comparator comes with
\* a direct active comparator, a direct active comparator with an evaluable
\* predominant comparator, a dominant OS endpoint with a hard clinical primary,
\* and a dominant PFS or ORR endpoint with surrogate usage primary_predominant.
C27_CrossFieldCoherence ==
  Returned =>
    /\ (Comparator.predominantComparator = "active") =>
         (Comparator.hasDirectActiveComparator = Some(TRUE))
    /\ (Comparator.hasDirectActiveComparator = Some(TRUE)) =>
         (Comparator.predominantComparator # "not_evaluable")
    /\ (Endpoint.dominantPrimaryEndpoint = "OS") =>
         (Endpoint.hasHardClinicalPrimary = Some(TRUE))
    /\ (Endpoint.dominantPrimaryEndpoint \in {"PFS", "ORR"}) =>
         (Endpoint.surrogateUsage = "primary_predominant")

\* an analysis with a predominant active comparator and a dominant OS endpoint
C27_Witness ==
  /\ Returned
  /\ Comparator.predominantComparator = "active"
  /\ Comparator.hasDirectActiveComparator = Some(TRUE)
  /\ Endpoint.dominantPrimaryEndpoint = "OS"
  /\ Endpoint.hasHardClinicalPrimary = Some(TRUE)

(* ---------------------------------------------------------------- *)
(* the comparator note                                               *)
(* ---------------------------------------------------------------- *)

\* the opening sentence of the note for each evaluable predominant comparator
ComparatorTemplate ==
  [p \in {"placebo", "soc", "active", "add-on", "mixed"} |->
     CASE p = "placebo" ->
            "La evidencia se apoya mayoritariamente en comparaciones frente a placebo"
       [] p = "soc" ->
            "La evidencia se basa principalmente en comparaciones frente a tratamiento estandar"
       [] p = "active" -> "Los ensayos incluyen comparadores activos directos"
       [] p = "add-on" -> "Los disenos add-on sobre terapia base son predominantes"
       [] p = "mixed" ->
            "La evidencia presenta heterogeneidad en los comparadores utilizados"]

AddOnClause ==
  [a \in {"minority", "relevant", "predominant"} |->
     IF a = "predominant" THEN ", mayoritariamente en diseno add-on"
     ELSE ", con presencia limitada de disenos add-on"]

ActiveClause == ". Existen comparaciones activas directas en parte de la evidencia"

\* the clauses a note must carry, read off the categorical aggregates alone
HasAddOnClause(c) == c.addOnDesigns \in {"minority", "relevant", "predominant"}

HasActiveClause(c) ==
  c.hasDirectActiveComparator = Some(TRUE) /\ c.predominantComparator # "active"

\* the note determined by the aggregates of c
NoteFor(c) ==
  <<ComparatorTemplate[c.predominantComparator]>>
    \o (IF HasAddOnClause(c) THEN <<AddOnClause[c.addOnDesigns]>> ELSE <<>>)
    \o (IF HasActiveClause(c) THEN <<ActiveClause>> ELSE <<>>)
    \o <<".">>

\* C28: the comparator note is the not-evaluable sentence exactly when the
\* predominant comparator is not_evaluable; otherwise it is the template of
\* the predominant comparator, an add-on clause iff add-on designs are
\* minority, relevant or predominant, the active clause iff there is a direct
\* active comparator and the predominant comparator is not active, and a
\* final period, whatever the number of trials.
C28_ComparatorNote ==
  Returned =>
    /\ (Comparator.structuralNote = <<NotEvaluableNote>>) <=>
         (Comparator.predominantComparator = "not_evaluable")
    /\ (Comparator.predominantComparator # "not_evaluable") =>
         (Comparator.structuralNote = NoteFor(Comparator))

\* a note carrying an add-on clause and the active clause
C28_Witness ==
  /\ Returned
  /\ Len(analysed) >= 2
  /\ Comparator.predominantComparator \notin {"not_evaluable", "active"}
  /\ HasAddOnClause(Comparator)
  /\ HasActiveClause(Comparator)
  /\ Len(Comparator.structuralNote) = 4

-----------------------------------------------------------------------------
(* _shared/cors.ts: checkRateLimit *)

\* the default rate limits per endpoint
RATE_LIMITS ==
  [e \in {"trials-search", "trial-detail", "comparator-summary", "pico-summary",
          "external-ai-analyze", "pubmed-search"} |->
     [maxRequests |->
        CASE e = "trials-search" -> 100
          [] e = "trial-detail" -> 100
          [] e = "comparator-summary" -> 30
          [] e = "pico-summary" -> 30
          [] e = "external-ai-analyze" -> 20
          [] e = "pubmed-search" -> 50]]

\* the concurrent checkRateLimit calls of one client IP to one endpoint
MaxCalls == 2

Calls == 1..MaxCalls

\* window_start against now - windowMs: the calls all run within one window,
\* so a stored window_start is either inside it or older
WindowStarts == {"current", "expired"}

RateLimitRow(request_count, window_start) ==
  [request_count |-> request_count, window_start |-> window_start]

\* the rows that sequential calls leave behind: n allowed calls store n
StoredRows(maxRequests) ==
  {RateLimitRow(n, w) : n \in 1..maxRequests, w \in WindowStarts}

rateLimitHeaders(limit, remaining) ==
  [limit |-> limit, remaining |-> IF remaining > 0 THEN remaining ELSE 0]

RateLimitResult(allowed, remaining, limit) ==
  [allowed |-> allowed, remaining |-> remaining,
   headers |-> rateLimitHeaders(limit, remaining)]

failOpen(limit) == RateLimitResult(TRUE, limit, limit)

CallAt(pc, existing, callResult) ==
  [pc |-> pc, existing |-> existing, result |-> callResult]

config == RATE_LIMITS[rateEndpoint[1]]

InitRateLimit ==
  /\ \E e \in DOMAIN RATE_LIMITS :
       /\ rateEndpoint = Some(e)
       /\ \/ rate_limits = Undefined /\ allowedBefore = 0
          \/ \E row \in StoredRows(RATE_LIMITS[e].maxRequests) :
               /\ rate_limits = Some(row)
               /\ allowedBefore =
                    IF row.window_start = "current" THEN row.request_count ELSE 0
  /\ rateCalls = [c \in Calls |-> CallAt("start", Undefined, Undefined)]
  /\ trials = <<>>
  /\ analysed = <<>>
  /\ result = NoResult
  /\ tdMeasure = <<>>
  /\ tdLabel = NoLabel
  /\ tdArmGroup = Undefined
  /\ clientArm = Undefined
  /\ armClass = Undefined
  /\ SearchPageMounted

\* step 1: the select resolves with the row, or with no row (PGRST116)
Select(c) ==
  /\ rateCalls[c].pc = "start"
  /\ rateCalls' = [rateCalls EXCEPT ![c] = CallAt("selected", rate_limits, Undefined)]
  /\ UNCHANGED <<rateEndpoint, rate_limits, allowedBefore, classifierVars, searchVars>>

\* the select resolves with another error: fail open
SelectError(c) ==
  /\ rateCalls[c].pc = "start"
  /\ rateCalls' =
       [rateCalls EXCEPT ![c] = CallAt("failedOpen", Undefined, Some(failOpen(config.maxRequests)))]
  /\ UNCHANGED <<rateEndpoint, rate_limits, allowedBefore, classifierVars, searchVars>>

InWindow(existing) == IsDefined(existing) /\ existing[1].window_start = "current"

\* the row read is in the window and at the limit
Reject(c) ==
  /\ rateCalls[c].pc = "selected"
  /\ InWindow(rateCalls[c].existing)
  /\ rateCalls[c].existing[1].request_count >= config.maxRequests
  /\ rateCalls' =
       [rateCalls EXCEPT ![c] =
          CallAt("done", @.existing, Some(RateLimitResult(FALSE, 0, config.maxRequests)))]
  /\ UNCHANGED <<rateEndpoint, rate_limits, allowedBefore, classifierVars, searchVars>>

\* update({ request_count: existing.request_count + 1 }) on the row of the
\* IP and endpoint, then return allowed
Update(c) ==
  /\ rateCalls[c].pc = "selected"
  /\ InWindow(rateCalls[c].existing)
  /\ rateCalls[c].existing[1].request_count < config.maxRequests
  /\ rate_limits' =
       IF IsDefined(rate_limits)
       THEN Some([rate_limits[1] EXCEPT
                    !.request_count = rateCalls[c].existing[1].request_count + 1])
       ELSE rate_limits
  /\ rateCalls' =
       [rateCalls EXCEPT ![c] =
          CallAt("done", @.existing,
                 Some(RateLimitResult(TRUE,
                        config.maxRequests - rateCalls[c].existing[1].request_count - 1,
                        config.maxRequests)))]
  /\ UNCHANGED <<rateEndpoint, allowedBefore, classifierVars, searchVars>>

\* no row, or a row of an older window: the upsert resets the counter
Upsert(c) ==
  /\ rateCalls[c].pc = "selected"
  /\ ~InWindow(rateCalls[c].existing)
  /\ rate_limits' = Some(RateLimitRow(1, "current"))
  /\ rateCalls' =
       [rateCalls EXCEPT ![c] =
          CallAt("done", @.existing,
                 Some(RateLimitResult(TRUE, config.maxRequests - 1, config.maxRequests)))]
  /\ UNCHANGED <<rateEndpoint, allowedBefore, classifierVars, searchVars>>

NextRateLimit ==
  \E c \in Calls : Select(c) \/ SelectError(c) \/ Reject(c) \/ Update(c) \/ Upsert(c)

SpecRateLimit == InitRateLimit /\ [][NextRateLimit]_vars

\* the calls that returned without a database error
NoDatabaseError == \A c \in Calls : rateCalls[c].pc # "failedOpen"

\* the calls that returned allowed = true
AllowedCalls ==
  {c \in Calls : IsDefined(rateCalls[c].result) /\ rateCalls[c].result[1].allowed}

\* the requests allowed in the current window, these calls included
AllowedInWindow == allowedBefore + Cardinality(AllowedCalls)

\* C29: without a database error, the calls of one client IP to one endpoint
\* that return allowed = true within one window never outnumber maxRequests,
\* however the concurrent calls interleave.
C29_AllowedWithinLimit ==
  (IsDefined(rateEndpoint) /\ NoDatabaseError) =>
    AllowedInWindow <= config.maxRequests

-----------------------------------------------------------------------------
(* pages/Index (src/unnamed/part_000): handleSearch and handleLoadMore *)

\* the SearchParams the form submits
Queries == {"pembrolizumab", "melanoma"}

\* the pages the registry holds for a query
MaxPages == 3

PageToken(query, page) == [query |-> query, page |-> page]

\* the trials of one page of a query
Page(query, page) == [query |-> query, page |-> page]

SearchResult(pageTrials, nextPageToken) ==
  [trials |-> pageTrials, nextPageToken |-> nextPageToken]

\* the first page of the query, with the token of its second page
searchTrials(params) ==
  SearchResult(<<Page(params, 1)>>,
               IF 1 < MaxPages THEN Some(PageToken(params, 2)) ELSE Null)

\* the page the token points at, requested with params
searchTrialsNextPage(params, pageToken) ==
  SearchResult(<<Page(params, pageToken.page)>>,
               IF pageToken.page < MaxPages
               THEN Some(PageToken(params, pageToken.page + 1))
               ELSE Null)

InitSearch ==
  /\ SearchPageMounted
  /\ RateLimitUnused
  /\ trials = <<>>
  /\ analysed = <<>>
  /\ result = NoResult
  /\ tdMeasure = <<>>
  /\ tdLabel = NoLabel
  /\ tdArmGroup = Undefined
  /\ clientArm = Undefined
  /\ armClass = Undefined

\* the form is submitted (its button is disabled while isLoading): handleSearch
\* up to the await
handleSearch(params) ==
  /\ ~isLoading
  /\ isLoading' = TRUE
  /\ lastSearchParams' = Some(params)
  /\ searchRequest' = Some(params)
  /\ UNCHANGED <<results, isLoadingMore, nextPageRequest, classifierVars, rateVars>>

\* searchTrials resolves: setResults(data), then finally
handleSearch_resolved ==
  /\ IsDefined(searchRequest)
  /\ results' = Some(searchTrials(searchRequest[1]))
  /\ isLoading' = FALSE
  /\ searchRequest' = Undefined
  /\ UNCHANGED <<isLoadingMore, lastSearchParams, nextPageRequest, classifierVars, rateVars>>

\* searchTrials rejects: catch, then finally
handleSearch_rejected ==
  /\ IsDefined(searchRequest)
  /\ isLoading' = FALSE
  /\ searchRequest' = Undefined
  /\ UNCHANGED <<results, isLoadingMore, lastSearchParams, nextPageRequest, classifierVars, rateVars>>

\* the load-more button is shown for a nextPageToken and disabled while
\* isLoadingMore: handleLoadMore up to the await
handleLoadMore ==
  /\ IsDefined(results)
  /\ IsDefined(results[1].nextPageToken)
  /\ ~isLoadingMore
  /\ IsDefined(lastSearchParams)
  /\ isLoadingMore' = TRUE
  /\ nextPageRequest' =
       Some([params |-> lastSearchParams[1], pageToken |-> results[1].nextPageToken[1]])
  /\ UNCHANGED <<results, isLoading, lastSearchParams, searchRequest, classifierVars, rateVars>>

\* searchTrialsNextPage resolves: setResults(prev => ...), then finally
handleLoadMore_resolved ==
  /\ IsDefined(nextPageRequest)
  /\ \E moreData \in {searchTrialsNextPage(nextPageRequest[1].params,
                                           nextPageRequest[1].pageToken)} :
       results' =
         IF ~IsDefined(results) THEN Some(moreData)
         ELSE Some(SearchResult(results[1].trials \o moreData.trials,
                                moreData.nextPageToken))
  /\ isLoadingMore' = FALSE
  /\ nextPageRequest' = Undefined
  /\ UNCHANGED <<isLoading, lastSearchParams, searchRequest, classifierVars, rateVars>>

\* searchTrialsNextPage rejects: catch, then finally
handleLoadMore_rejected ==
  /\ IsDefined(nextPageRequest)
  /\ isLoadingMore' = FALSE
  /\ nextPageRequest' = Undefined
  /\ UNCHANGED <<results, isLoading, lastSearchParams, searchRequest, classifierVars, rateVars>>

NextSearch ==
  \/ \E params \in Queries : handleSearch(params)
  \/ handleSearch_resolved
  \/ handleSearch_rejected
  \/ handleLoadMore
  \/ handleLoadMore_resolved
  \/ handleLoadMore_rejected

SpecSearch == InitSearch /\ [][NextSearch]_vars

\* no request is pending
Settled == ~IsDefined(searchRequest) /\ ~IsDefined(nextPageRequest)

\* the search whose response was displayed last: its first page heads the list
DisplayedSearch == results[1].trials[1].query

\* C30: once the requests have completed, every displayed page and the stored
\* nextPageToken belong to the search displayed last, and no page is
\* displayed twice.
C30_ResultsOfOneSearch ==
  (Settled /\ IsDefined(results)) =>
    /\ \A i \in 1..Len(results[1].trials) : results[1].trials[i].query = DisplayedSearch
    /\ IsDefined(results[1].nextPageToken) =>
         results[1].nextPageToken[1].query = DisplayedSearch
    /\ \A i, j \in 1..Len(results[1].trials) :
         results[1].trials[i] = results[1].trials[j] => i = j

====
